---- MODULE Spec2Model ----
(***************************************************************************)
(* The feed-ingestion and deduplication pipeline of the news bot:          *)
(* NewsScraper (src/scraper/news_scraper.py).                              *)
(*                                                                         *)
(* Text (titles, bodies, URLs, MIME types) is a sequence of one-character  *)
(* strings, so that strip, lower, the regular expressions and the          *)
(* substring tests of the code are computed character by character.        *)
(***************************************************************************)
EXTENDS Integers, Sequences, FiniteSets, TLC

(* ------------------------------------------------------------------ *)
(* Python string primitives used by the scraper                        *)
(* ------------------------------------------------------------------ *)

\* Characters str.strip() and str.split() treat as whitespace.
WS == {" ", "\t", "\n"}

UpperLetters ==
  <<"A","B","C","D","E","F","G","H","I","J","K","L","M",
    "N","O","P","Q","R","S","T","U","V","W","X","Y","Z">>

LowerLetters ==
  <<"a","b","c","d","e","f","g","h","i","j","k","l","m",
    "n","o","p","q","r","s","t","u","v","w","x","y","z">>

Digits == {"0","1","2","3","4","5","6","7","8","9"}

SetMin(S) == CHOOSE x \in S : \A y \in S : x <= y

SetMax(S) == CHOOSE x \in S : \A y \in S : y <= x

LowerChar(c) ==
  IF \E i \in DOMAIN UpperLetters : UpperLetters[i] = c
  THEN LowerLetters[CHOOSE i \in DOMAIN UpperLetters : UpperLetters[i] = c]
  ELSE c

\* str.lower()
lower(s) == [i \in 1..Len(s) |-> LowerChar(s[i])]

\* str.strip()
strip(s) ==
  LET nz == {i \in 1..Len(s) : s[i] \notin WS}
  IN IF nz = {} THEN <<>> ELSE SubSeq(s, SetMin(nz), SetMax(nz))

\* s.startswith(p)
startswith(s, p) == Len(s) >= Len(p) /\ SubSeq(s, 1, Len(p)) = p

\* s.endswith(p)
endswith(s, p) == Len(s) >= Len(p) /\ SubSeq(s, Len(s) - Len(p) + 1, Len(s)) = p

\* k in t  (substring test; the empty string is in every string)
contains(k, t) ==
  \E i \in 0..(Len(t) - Len(k)) : SubSeq(t, i + 1, i + Len(k)) = k

\* The sequence s with its index attached to every character.
Indexed(s) == [i \in 1..Len(s) |-> <<i, s[i]>>]

\* For a "<" at q: the index of the ">" closing the match of <[^>]+> that
\* starts at q, or 0 when the pattern does not match at q.
TagEnd(s, q) ==
  LET closers == {j \in (q + 1)..Len(s) : s[j] = ">"}
  IN IF closers = {} THEN 0
     ELSE IF SetMin(closers) >= q + 2 THEN SetMin(closers) ELSE 0

\* re.sub(r'<[^>]+>', '', s)
StripTags(s) ==
  LET InTag(p) == \E q \in 1..p[1] : s[q] = "<" /\ TagEnd(s, q) >= p[1]
      Keep(p) == ~InTag(p)
      sel == SelectSeq(Indexed(s), Keep)
  IN [k \in 1..Len(sel) |-> sel[k][2]]

\* ' '.join(s.split())
CollapseWS(s) ==
  LET Keep(p) ==
        \/ p[2] \notin WS
        \/ /\ p[1] > 1
           /\ s[p[1] - 1] \notin WS
           /\ \E j \in (p[1] + 1)..Len(s) : s[j] \notin WS
      sel == SelectSeq(Indexed(s), Keep)
  IN [k \in 1..Len(sel) |-> IF sel[k][2] \in WS THEN " " ELSE sel[k][2]]

\* s.split('?')[0]
BeforeQuery(s) ==
  LET qs == {i \in 1..Len(s) : s[i] = "?"}
  IN IF qs = {} THEN s ELSE SubSeq(s, 1, SetMin(qs) - 1)

\* s.replace(old, '') : every non-overlapping occurrence, left to right.
RECURSIVE RemoveAll(_, _)
RemoveAll(s, old) ==
  IF Len(s) = 0 \/ Len(old) = 0 THEN s
  ELSE IF startswith(s, old)
       THEN RemoveAll(SubSeq(s, Len(old) + 1, Len(s)), old)
       ELSE <<s[1]>> \o RemoveAll(SubSeq(s, 2, Len(s)), old)

(* ------------------------------------------------------------------ *)
(* urllib.parse.urlparse: scheme and netloc                            *)
(* ------------------------------------------------------------------ *)

SchemeChars ==
  {UpperLetters[i] : i \in DOMAIN UpperLetters}
    \cup {LowerLetters[i] : i \in DOMAIN LowerLetters}
    \cup Digits \cup {"+", "-", "."}

\* Index of the ":" ending a valid scheme, or 0.
SchemeEnd(url) ==
  LET cs == {i \in 1..Len(url) : url[i] = ":"}
  IN IF cs = {} THEN 0
     ELSE LET c == SetMin(cs)
          IN IF c > 1
                /\ url[1] \notin Digits \cup {"+", "-", "."}
                /\ \A i \in 1..(c - 1) : url[i] \in SchemeChars
             THEN c ELSE 0

UrlScheme(url) ==
  IF SchemeEnd(url) = 0 THEN <<>> ELSE lower(SubSeq(url, 1, SchemeEnd(url) - 1))

UrlNetloc(url) ==
  LET rest == SubSeq(url, SchemeEnd(url) + 1, Len(url))
  IN IF ~startswith(rest, <<"/", "/">>) THEN <<>>
     ELSE LET ends == {i \in 3..Len(rest) : rest[i] \in {"/", "?", "#"}}
          IN IF ends = {} THEN SubSeq(rest, 3, Len(rest))
             ELSE SubSeq(rest, 3, SetMin(ends) - 1)

\* urlparse raises ValueError ("Invalid IPv6 URL") on unbalanced brackets.
UrlParseRaises(url) ==
  LET n == UrlNetloc(url)
  IN (\E i \in 1..Len(n) : n[i] = "[") # (\E i \in 1..Len(n) : n[i] = "]")

(* ------------------------------------------------------------------ *)
(* String literals of the scraper                                      *)
(* ------------------------------------------------------------------ *)

HttpPrefix == <<"h","t","t","p",":","/","/">>

HttpsPrefix == <<"h","t","t","p","s",":","/","/">>

HttpsColon == <<"h","t","t","p","s",":">>

SchemeSep == <<":","/","/">>

valid_extensions ==
  << <<".","j","p","g">>,
     <<".","j","p","e","g">>,
     <<".","p","n","g">>,
     <<".","w","e","b","p">>,
     <<".","g","i","f">> >>

ImageWord == <<"i","m","a","g","e">>

ImageSlash == <<"i","m","a","g","e","/">>

TextHtml == <<"t","e","x","t","/","h","t","m","l">>

ImgOpen == <<"<","i","m","g">>

SrcEq == <<"s","r","c","=">>

Www == <<"w","w","w",".">>

Unknown == <<"U","n","k","n","o","w","n">>

Placeholder == <<"C","l","i","c","k"," ","t","o"," ","r","e","a","d"," ","m","o","r","e",".",".",".">>

Ellipsis == <<".",".",".">>

Quotes == {"\"", "'"}

\* A rejected entry (_process_entry returns None).
None == [none |-> TRUE]

\* No image (the function returns None; callers only test truthiness).
NoImage == << >>

\* len(summary) > 200 decides truncation, summary[:200] is what is kept.
SummaryLimit == 200

\* len(title) < 10 rejects the entry.
MinTitleLen == 10

(* ------------------------------------------------------------------ *)
(* A raw feed entry (feedparser's entry dictionary)                    *)
(*   title, summary, description, link : text ('' when absent)         *)
(*   published, updated, pubDate       : text ('' when absent)         *)
(*   published_parsed, updated_parsed  : <<>> (None) or <<t>>          *)
(*   enclosures     : sequence of records, with "type" and "href"      *)
(*   media_thumbnail: sequence of records, with "url"                  *)
(*   media_content  : sequence of records, with "type" and "url"       *)
(*   content        : sequence of [type, value]                        *)
(*   head           : what the network answers to a HEAD request for   *)
(*                    this entry's image: [fails, status, content_type] *)
(* ------------------------------------------------------------------ *)

(* ------------------------------------------------------------------ *)
(* _is_valid_image_url                                                 *)
(* ------------------------------------------------------------------ *)

\* any(clean_url.endswith(ext) for ext in valid_extensions)
HasImageExtension(url) ==
  LET clean_url == BeforeQuery(lower(url))
  IN \E e \in DOMAIN valid_extensions : endswith(clean_url, valid_extensions[e])

\* requests.head(url, timeout=5, allow_redirects=True), then the test of the
\* declared content type; any exception of the request gives False.
HeadProbe(head) ==
  IF head.fails THEN FALSE
  ELSE startswith(lower(head.content_type), ImageSlash)

is_valid_image_url(url, head) ==
  IF url = <<>> \/ ~(startswith(url, HttpPrefix) \/ startswith(url, HttpsPrefix))
  THEN FALSE
  ELSE IF HasImageExtension(url) THEN TRUE
  ELSE HeadProbe(head)

\* Whether validation of url issues the HEAD request.
ProbeIssued(url) ==
  /\ url # <<>>
  /\ startswith(url, HttpPrefix) \/ startswith(url, HttpsPrefix)
  /\ ~HasImageExtension(url)

(* ------------------------------------------------------------------ *)
(* _extract_image_url                                                  *)
(* ------------------------------------------------------------------ *)

\* The j at which 'src=' starts in a match of
\*   <img[^>]+src=["\']([^"\']+)["\']   (re.IGNORECASE)
\* beginning at index i of s: [^>]+ is greedy, so the largest j wins.
ImgSrcStarts(s, i) ==
  IF ~(i + 3 <= Len(s) /\ lower(SubSeq(s, i, i + 3)) = ImgOpen) THEN {}
  ELSE {j \in (i + 5)..(Len(s) - 6) :
          /\ \A k \in (i + 4)..(j - 1) : s[k] # ">"
          /\ lower(SubSeq(s, j, j + 3)) = SrcEq
          /\ s[j + 4] \in Quotes
          /\ s[j + 5] \notin Quotes
          /\ \E k \in (j + 6)..Len(s) : s[k] \in Quotes}

\* matches[0] of re.findall(img_pattern, s, re.IGNORECASE), '' when no match.
FirstImgSrc(s) ==
  LET starts == {i \in 1..Len(s) : s[i] = "<" /\ ImgSrcStarts(s, i) # {}}
  IN IF starts = {} THEN <<>>
     ELSE LET j == SetMax(ImgSrcStarts(s, SetMin(starts)))
              close == SetMin({k \in (j + 6)..Len(s) : s[k] \in Quotes})
          IN SubSeq(s, j + 5, close - 1)

\* entry.get('summary', '') or entry.get('description', '')
RawBody(entry) ==
  IF entry.summary # <<>> THEN entry.summary ELSE entry.description

\* Method 1: the first enclosure whose type contains 'image'.
ImageEnclosures(entry) ==
  {i \in DOMAIN entry.enclosures :
     /\ "type" \in DOMAIN entry.enclosures[i]
     /\ entry.enclosures[i].type # <<>>
     /\ contains(ImageWord, entry.enclosures[i].type)}

EnclosureRaises(entry) ==
  /\ ImageEnclosures(entry) # {}
  /\ "href" \notin DOMAIN entry.enclosures[SetMin(ImageEnclosures(entry))]

EnclosureCandidate(entry) ==
  IF ImageEnclosures(entry) = {} \/ EnclosureRaises(entry) THEN <<>>
  ELSE entry.enclosures[SetMin(ImageEnclosures(entry))].href

\* Method 2a: entry.media_thumbnail[0]['url']
ThumbnailRaises(entry) ==
  /\ entry.media_thumbnail # <<>>
  /\ "url" \notin DOMAIN entry.media_thumbnail[1]

ThumbnailCandidate(entry) ==
  IF entry.media_thumbnail = <<>> \/ ThumbnailRaises(entry) THEN <<>>
  ELSE entry.media_thumbnail[1].url

\* Method 2b: the first media_content whose type contains 'image'.
ImageMedia(entry) ==
  {i \in DOMAIN entry.media_content :
     /\ "type" \in DOMAIN entry.media_content[i]
     /\ contains(ImageWord, entry.media_content[i].type)}

MediaRaises(entry) ==
  /\ ImageMedia(entry) # {}
  /\ "url" \notin DOMAIN entry.media_content[SetMin(ImageMedia(entry))]

MediaCandidate(entry) ==
  IF ImageMedia(entry) = {} \/ MediaRaises(entry) THEN <<>>
  ELSE entry.media_content[SetMin(ImageMedia(entry))].url

\* Method 3: the first <img src> of the summary or description.
BodyImgCandidate(entry) == FirstImgSrc(RawBody(entry))

\* Method 4: the first text/html content holding an <img src>.
ContentImgCandidate(entry) ==
  LET hits == {i \in DOMAIN entry.content :
                 /\ entry.content[i].type = TextHtml
                 /\ FirstImgSrc(entry.content[i].value) # <<>>}
  IN IF hits = {} THEN <<>> ELSE FirstImgSrc(entry.content[SetMin(hits)].value)

\* The candidates of the five sources, in the order the code consults them.
SourceCandidates(entry) ==
  << EnclosureCandidate(entry), ThumbnailCandidate(entry), MediaCandidate(entry),
     BodyImgCandidate(entry), ContentImgCandidate(entry) >>

\* SelectedSource with the sources consulted in the opposite order: the last
\* non-empty candidate selected.
SelectedSourceLast(candidates) ==
  IF \A i \in DOMAIN candidates : candidates[i] = <<>> THEN 0
  ELSE SetMax({i \in DOMAIN candidates : candidates[i] # <<>>})

\* "if not image_url and ...": a source is consulted only while no earlier
\* one has produced a candidate, so the first non-empty candidate is the one
\* selected (0: no source has any).
SelectedSource(candidates) ==
  IF \A i \in DOMAIN candidates : candidates[i] = <<>> THEN 0
  ELSE SetMin({i \in DOMAIN candidates : candidates[i] # <<>>})

\* image_url when "Validate and clean URL" is reached ('' for None).
SelectedCandidate(candidates) ==
  IF SelectedSource(candidates) = 0 THEN <<>>
  ELSE candidates[SelectedSource(candidates)]

\* An exception inside the try block (a missing href or url key).
ExtractionRaises(entry) ==
  \/ EnclosureRaises(entry)
  \/ EnclosureCandidate(entry) = <<>> /\ ThumbnailRaises(entry)
  \/ /\ EnclosureCandidate(entry) = <<>>
     /\ ThumbnailCandidate(entry) = <<>>
     /\ MediaRaises(entry)

\* RepairUrl without the two repairs.
RepairUrlNone(image_url, entry) == image_url

\* "Handle relative URLs"
RepairUrl(image_url, entry) ==
  IF startswith(image_url, <<"/", "/">>) THEN HttpsColon \o image_url
  ELSE IF startswith(image_url, <<"/">>)
       THEN IF entry.link # <<>>
            THEN UrlScheme(entry.link) \o SchemeSep \o UrlNetloc(entry.link) \o image_url
            ELSE image_url
       ELSE image_url

\* urlparse(entry.link) raising inside the try block.
RepairRaises(image_url, entry) ==
  /\ ~startswith(image_url, <<"/", "/">>)
  /\ startswith(image_url, <<"/">>)
  /\ entry.link # <<>>
  /\ UrlParseRaises(entry.link)

\* if self._is_valid_image_url(image_url): return image_url / return None
ValidOrNone(image_url, head) ==
  IF is_valid_image_url(image_url, head) THEN image_url ELSE NoImage

\* "Validate and clean URL", for the candidate the methods have left.
ValidateAndClean(image_url, entry) ==
  IF image_url = <<>> THEN NoImage
  ELSE IF RepairRaises(image_url, entry) THEN NoImage
  ELSE ValidOrNone(RepairUrl(image_url, entry), entry.head)

extract_image_url(entry) ==
  IF ExtractionRaises(entry) THEN NoImage
  ELSE ValidateAndClean(SelectedCandidate(SourceCandidates(entry)), entry)

\* image_url when "Validate and clean URL" is reached ('' when a method raised
\* before).
Candidate(entry) ==
  IF ExtractionRaises(entry) THEN <<>>
  ELSE SelectedCandidate(SourceCandidates(entry))

\* The URL handed to _is_valid_image_url ('' when the call is not reached).
CheckedUrl(entry) ==
  IF Candidate(entry) = <<>> \/ RepairRaises(Candidate(entry), entry) THEN <<>>
  ELSE RepairUrl(Candidate(entry), entry)

\* An exception is raised inside the try block of _extract_image_url.
ExtractionFaults(entry) ==
  \/ ExtractionRaises(entry)
  \/ Candidate(entry) # <<>> /\ RepairRaises(Candidate(entry), entry)

\* ExtractionEscapes without the except clause.
ExtractionEscapesFaults(entry) == ExtractionFaults(entry)

\* except Exception as e: log, return None.  No exception leaves the function.
ExtractionEscapes(entry) == FALSE

(* ------------------------------------------------------------------ *)
(* _parse_date, _get_domain, _process_entry                            *)
(* ------------------------------------------------------------------ *)

\* parse_date with updated_parsed consulted before published_parsed.
parse_date_updated_first(entry, now) ==
  IF entry.published # <<>> \/ entry.updated # <<>> \/ entry.pubDate # <<>>
  THEN IF entry.updated_parsed # <<>> THEN entry.updated_parsed[1]
       ELSE IF entry.published_parsed # <<>> THEN entry.published_parsed[1]
       ELSE now
  ELSE now

\* now is the reading of datetime.now() while the entry is normalized.
parse_date(entry, now) ==
  IF entry.published # <<>> \/ entry.updated # <<>> \/ entry.pubDate # <<>>
  THEN IF entry.published_parsed # <<>> THEN entry.published_parsed[1]
       ELSE IF entry.updated_parsed # <<>> THEN entry.updated_parsed[1]
       ELSE now
  ELSE now

get_domain(url) ==
  IF UrlParseRaises(url) THEN Unknown ELSE RemoveAll(UrlNetloc(url), Www)

\* The body after "Clean up summary": tags removed, whitespace collapsed.
CleanBody(entry) == CollapseWS(StripTags(RawBody(entry)))

\* f"{title} {summary}".lower()
CombinedText(entry) == lower(strip(entry.title) \o <<" ">> \o CleanBody(entry))

\* MatchedKeyword without the break of the loop: the last match stays.
MatchedKeywordLast(keywords, combined_text) ==
  LET hits == {i \in DOMAIN keywords : contains(lower(keywords[i]), combined_text)}
  IN IF hits = {} THEN <<>> ELSE keywords[SetMax(hits)]

\* The keyword loop: the first keyword whose lowercased form is in the text;
\* '' when the loop ends without a match (None) or the match is ''.
MatchedKeyword(keywords, combined_text) ==
  LET hits == {i \in DOMAIN keywords : contains(lower(keywords[i]), combined_text)}
  IN IF hits = {} THEN <<>> ELSE keywords[SetMin(hits)]

\* CleanSummary cutting a body of exactly SummaryLimit characters as well.
CleanSummaryFrom200(summary) ==
  IF summary # <<>>
  THEN IF Len(summary) >= SummaryLimit
       THEN SubSeq(summary, 1, SummaryLimit) \o Ellipsis
       ELSE summary
  ELSE Placeholder

\* "Create summary (limit to 200 chars for caption)"
CleanSummary(summary) ==
  IF summary # <<>>
  THEN IF Len(summary) > SummaryLimit
       THEN SubSeq(summary, 1, SummaryLimit) \o Ellipsis
       ELSE summary
  ELSE Placeholder

\* TitleTooShort with the length test left out.
TitleAnyLength(title) == FALSE

\* if len(title) < 10: return None
TitleTooShort(title) == Len(title) < MinTitleLen

\* re.sub(r'<[^>]+>', '', summary) raising TypeError: the summary the feed
\* parser hands over is not a string.
NormalizationRaises(entry) == entry.summary_not_text

\* What _process_entry gives when the exception leaves it.
Escaped == [escaped |-> TRUE]

\* OnEntryError without the except clause.
OnEntryErrorEscapes(entry) == Escaped

\* except Exception as e: logging.error(...); return None
OnEntryError(entry) == None

process_entry(entry, keywords, feed_url, now) ==
  LET title == strip(entry.title)
      link == strip(entry.link)
      summary == CleanBody(entry)
      matched_keyword == MatchedKeyword(keywords, CombinedText(entry))
  IN IF title = <<>> \/ link = <<>> THEN None
     ELSE IF NormalizationRaises(entry) THEN OnEntryError(entry)
     ELSE IF TitleTooShort(title) THEN None
     ELSE IF matched_keyword = <<>> THEN None
     ELSE IF ExtractionEscapes(entry) THEN OnEntryError(entry)
     ELSE [ title |-> title,
            summary |-> CleanSummary(summary),
            url |-> link,
            keyword |-> matched_keyword,
            published_date |-> parse_date(entry, now),
            source |-> get_domain(feed_url),
            image_url |-> extract_image_url(entry),
            scraped_at |-> now ]

(* ------------------------------------------------------------------ *)
(* scrape_news                                                         *)
(*                                                                     *)
(* A call is [keywords, rss_feeds, max_results, docs, now]: docs[f] is *)
(* what feedparser.parse answers for the f-th feed of the call,        *)
(* [raises, bozo, entries, fault_at], and now is the wall clock when   *)
(* the call starts; normalizing one entry takes one tick.  fault_at = k *)
(* > 0: a statement of the try block raises when the loop over the     *)
(* entries comes to the k-th entry (0: none does).                     *)
(* ------------------------------------------------------------------ *)

\* Python's s[:n]
Slice(s, n) ==
  IF n >= 0 THEN SubSeq(s, 1, IF n < Len(s) THEN n ELSE Len(s))
  ELSE SubSeq(s, 1, IF Len(s) + n > 0 THEN Len(s) + n ELSE 0)

\* list.sort(key=lambda x: x['published_date'], reverse=True): stable.
\* x put into the sorted list after every item at least as recent.
InsertByDate(sorted, x) ==
  SelectSeq(sorted, LAMBDA y : y.published_date >= x.published_date)
    \o <<x>> \o
  SelectSeq(sorted, LAMBDA y : y.published_date < x.published_date)

RECURSIVE SortByDateDesc(_)
SortByDateDesc(s) ==
  IF Len(s) <= 1 THEN s
  ELSE InsertByDate(SortByDateDesc(SubSeq(s, 1, Len(s) - 1)), s[Len(s)])

\* target_count = max_results * len(keywords)
TargetCount(c) == c.max_results * Len(c.keywords)

\* IsNew without the look-up in the horizon.
IsNewAnyUrl(news_item, urls) == news_item # None

\* news_item and news_item['url'] not in self.scraped_urls
IsNew(news_item, urls) == news_item # None /\ news_item.url \notin urls

\* Remember keeping the last URL only.
RememberOnlyLast(urls, news_item) == {news_item.url}

\* Remember without the add.
RememberNothing(urls, news_item) == urls

\* self.scraped_urls.add(news_item['url'])
Remember(urls, news_item) == urls \cup {news_item.url}

\* FeedFull without the test.
FeedNeverFull(feed_news, max_results) == FALSE

\* if len(feed_news) >= max_results: break
FeedFull(feed_news, max_results) == Len(feed_news) >= max_results

\* EntriesToCheck without the slice.
EntriesAll(entries, max_results) == entries

\* for entry in feed.entries[:max_results * 3]
EntriesToCheck(entries, max_results) == Slice(entries, max_results * 3)

\* The body of the loop over a feed's entries, for the i-th entry of the f-th
\* feed, normalized to news_item.
\* st = [feed_news, urls, now, seen, taken, stop, failed]: seen lists the
\* entries normalized, taken those appended to feed_news, stop is the break
\* of the loop, failed an exception that left it.
Examine(st, f, i, news_item, max_results) ==
  IF news_item = Escaped
  THEN [st EXCEPT !.now = st.now + 1, !.seen = Append(st.seen, <<f, i>>),
                  !.failed = TRUE]
  ELSE IF IsNew(news_item, st.urls)
  THEN [ feed_news |-> Append(st.feed_news, news_item),
         urls |-> Remember(st.urls, news_item),
         now |-> st.now + 1,
         seen |-> Append(st.seen, <<f, i>>),
         taken |-> Append(st.taken, <<f, i>>),
         stop |-> FeedFull(Append(st.feed_news, news_item), max_results),
         failed |-> FALSE ]
  ELSE [st EXCEPT !.now = st.now + 1, !.seen = Append(st.seen, <<f, i>>)]

\* An exception raised inside the try block, outside _process_entry, when the
\* loop comes to the i-th entry.
FaultStrikes(doc, i) == doc.fault_at = i

\* The loop over the entries of the f-th feed, from the i-th entry on.
RECURSIVE ScanFeed(_, _, _, _)
ScanFeed(c, f, i, st) ==
  IF i > Len(EntriesToCheck(c.docs[f].entries, c.max_results))
     \/ st.stop \/ st.failed THEN st
  ELSE IF FaultStrikes(c.docs[f], i) THEN [st EXCEPT !.failed = TRUE]
  ELSE ScanFeed(c, f, i + 1,
         Examine(st, f, i,
                 process_entry(c.docs[f].entries[i], c.keywords, c.rss_feeds[f], st.now),
                 c.max_results))

\* feed_news.sort(...); all_news.extend(feed_news[:max_results])
Merge(all_news, feed_news, max_results) ==
  all_news \o Slice(SortByDateDesc(feed_news), max_results)

\* EnoughNews with > in the place of >=.
EnoughNewsStrict(all_news, c) == Len(all_news) > c.max_results * Len(c.keywords)

\* EnoughNews with max_results in the place of target_count.
EnoughNewsPerFeed(all_news, c) == Len(all_news) >= c.max_results

\* if len(all_news) >= target_count: break
EnoughNews(all_news, c) == Len(all_news) >= TargetCount(c)

\* OnFeedError without the except clause: the exception leaves the call.
OnFeedErrorRaise(lp) == [lp EXCEPT !.raised = TRUE]

\* except Exception as e: logging.error(...); continue
\* lp = [all_news, urls, now, seen, taken, fetched, failed, raised]
OnFeedError(lp) == lp

\* The except clause is entered for the f-th feed.
Failed(lp, f) == [lp EXCEPT !.failed = Append(lp.failed, f)]

\* What the loop over the entries has done to the instance and to the clock
\* by the time it ends or is left: feed_news is not part of it.
ScanEffects(lp, st) ==
  [lp EXCEPT !.urls = st.urls, !.now = st.now, !.seen = st.seen,
             !.taken = st.taken]

\* feed_news.sort(...); all_news.extend(feed_news[:max_results])
Extend(lp, feed_news, max_results) ==
  [lp EXCEPT !.all_news = Merge(lp.all_news, feed_news, max_results)]

\* The rest of the try block once feedparser.parse has answered: st is the
\* state in which the loop over the entries ended or was left.
AfterScan(lp, f, st, max_results) ==
  IF st.failed THEN OnFeedError(Failed(ScanEffects(lp, st), f))
  ELSE Extend(ScanEffects(lp, st), st.feed_news, max_results)

\* feedparser.parse(feed_url) is reached: the f-th feed is fetched.
Fetched(lp, f) == [lp EXCEPT !.fetched = Append(lp.fetched, f)]

\* One iteration of the loop over rss_feeds that gets past the break.
FeedStep(c, f, lp) ==
  IF c.docs[f].raises
  THEN OnFeedError(Failed(Fetched(lp, f), f))
  ELSE AfterScan(Fetched(lp, f), f,
                 ScanFeed(c, f, 1,
                          [feed_news |-> <<>>, urls |-> lp.urls, now |-> lp.now,
                           seen |-> lp.seen, taken |-> lp.taken,
                           stop |-> FALSE, failed |-> FALSE]),
                 c.max_results)

\* The loop over rss_feeds, from the f-th feed on.
RECURSIVE FeedLoop(_, _, _)
FeedLoop(c, f, lp) ==
  IF f > Len(c.rss_feeds) \/ lp.raised \/ EnoughNews(lp.all_news, c) THEN lp
  ELSE FeedLoop(c, f + 1, FeedStep(c, f, lp))

\* FinalSort without the sort.
FinalSortNone(all_news) == all_news

\* all_news.sort(key=lambda x: x['published_date'], reverse=True)
FinalSort(all_news) == SortByDateDesc(all_news)

\* FinalCut keeping the tail of the list.
FinalCutTail(all_news, c) ==
  IF Len(all_news) <= c.max_results * Len(c.keywords) THEN all_news
  ELSE SubSeq(all_news, Len(all_news) - c.max_results * Len(c.keywords) + 1,
              Len(all_news))

\* FinalCut without the slice.
FinalCutNone(all_news, c) == all_news

\* final_results = all_news[:target_count]
FinalCut(all_news, c) == Slice(all_news, TargetCount(c))

\* What the call leaves, lp being the state in which the loop over the feeds
\* ended: [result, urls, raised, merged, fetched, failed, seen, taken]
Finish(c, lp) ==
  [ result |-> IF lp.raised THEN <<>> ELSE FinalCut(FinalSort(lp.all_news), c),
    urls |-> lp.urls,
    raised |-> lp.raised,
    merged |-> lp.all_news,
    fetched |-> lp.fetched,
    failed |-> lp.failed,
    seen |-> lp.seen,
    taken |-> lp.taken ]

\* The whole call on a scraper whose horizon is urls.
scrape_news(c, urls) ==
  Finish(c, FeedLoop(c, 1,
              [all_news |-> <<>>, urls |-> urls, now |-> c.now,
               seen |-> <<>>, taken |-> <<>>, fetched |-> <<>>,
               failed |-> <<>>, raised |-> FALSE]))

(* ------------------------------------------------------------------ *)
(* The inputs the model draws from                                     *)
(* ------------------------------------------------------------------ *)

\* The largest max_results a caller passes (1..MaxResults).
MaxResults == 2

\* The wall clock when a call starts.
CallClock == 25

HeadFails == [fails |-> TRUE, status |-> 0, content_type |-> <<>>]

\* An entry with every field absent.
E0 ==
  [ title |-> <<>>, summary |-> <<>>, description |-> <<>>, link |-> <<>>,
    published |-> <<>>, updated |-> <<>>, pubDate |-> <<>>,
    published_parsed |-> <<>>, updated_parsed |-> <<>>,
    enclosures |-> <<>>, media_thumbnail |-> <<>>, media_content |-> <<>>,
    content |-> <<>>, head |-> HeadFails, summary_not_text |-> FALSE ]

DateText == <<"M","o","n">>

\* An entry with a title, a body, a link and a parsed publication time
\* (d = <<>> : the feed gives no date at all).
Mk(title, body, link, d) ==
  [E0 EXCEPT !.title = title, !.summary = body, !.link = link,
             !.published = IF d = <<>> THEN <<>> ELSE DateText,
             !.published_parsed = d]

KwAlpha == <<"a","l","p","h","a">>

KwBeta == <<"b","e","t","a">>

F1 == <<"h","t","t","p",":","/","/","a",".","i","o","/","f">>

F2 == <<"h","t","t","p",":","/","/","w","w","w",".","b",".","i","o","/","f">>

F3 == <<"h","t","t","p","s",":","/","/","c",".","i","o","/","f">>

LinkBase == <<"h","t","t","p",":","/","/","n",".","i","o","/">>

U1 == LinkBase \o <<"1">>

U2 == LinkBase \o <<"2">>

U3 == LinkBase \o <<"3">>

U4 == LinkBase \o <<"4">>

U5 == LinkBase \o <<"5">>

eA1 == Mk(<<"A","l","p","h","a"," ","n","e","w","s"," ","o","n","e">>,
          <<"p","l","a","i","n"," ","t","e","x","t">>, U1, <<30>>)

eA2 == Mk(<<"A","l","p","h","a"," ","a","n","d"," ","B","e","t","a"," ","t","w","o">>,
          <<>>, U2, <<20>>)

eB3 == Mk(<<"B","e","t","a"," ","n","e","w","s"," ","t","h","r","e","e">>,
          <<>>, U3, <<40>>)

\* No date: published_date falls back to the wall clock.
eA4 == Mk(<<"A","l","p","h","a"," ","n","e","w","s"," ","f","o","u","r">>,
          <<>>, <<" ">> \o U4 \o <<" ">>, <<>>)

\* The same link as eA1, under another title and date.
eDup1 == Mk(<<"A","l","p","h","a"," ","o","n","e"," ","a","g","a","i","n">>,
            <<>>, U1, <<35>>)

\* A title of 8 characters whose body matches a keyword.
eShort == Mk(<<" ","H","i"," ","t","h","e","r","e"," ">>,
             <<"<","p",">","a","l","p","h","a"," "," ","i","n","s","i","d","e","<","/","p",">">>,
             U5, <<50>>)

eNoLink == Mk(<<"A","l","p","h","a"," ","n","o"," ","l","i","n","k"," ","h","e","r","e">>,
              <<>>, <<" ">>, <<45>>)

eNoTitle == Mk(<<" ", " ">>, KwAlpha, U5, <<45>>)

\* An entry whose summary is not a string, under a title that matches.
eBad == [Mk(<<"A","l","p","h","a"," ","b","r","o","k","e","n">>, <<>>, U5, <<45>>)
           EXCEPT !.summary_not_text = TRUE]

eNoKw == Mk(<<"N","o","t","h","i","n","g"," ","o","f"," ","n","o","t","e">>,
            <<>>, U5, <<45>>)

Doc(entries) ==
  [raises |-> FALSE, bozo |-> FALSE, entries |-> entries, fault_at |-> 0]

\* feedparser.parse of an unreachable or broken source: bozo, no entries.
Unreachable ==
  [raises |-> FALSE, bozo |-> TRUE, entries |-> <<>>, fault_at |-> 0]

\* feedparser.parse raising.
Raising ==
  [raises |-> TRUE, bozo |-> TRUE, entries |-> <<>>, fault_at |-> 0]

D1 == Doc(<<eA1, eShort, eA2>>)

D2 == Doc(<<eBad, eDup1, eB3, eNoLink>>)

D3 == Doc(<<eA4, eA1, eDup1, eA2>>)

D4 == Doc(<<eShort, eNoTitle, eNoKw, eA4>>)

\* D1 when processing raises as the loop comes to its second entry.
D1Fault == [D1 EXCEPT !.fault_at = 2]

\* What each source may answer.
DocsOf(feed_url) ==
  IF feed_url = F1 THEN {D1, D4, D1Fault}
  ELSE IF feed_url = F2 THEN {D2, Unreachable, Raising}
  ELSE {D3}

FeedLists == { <<>>, <<F1, F2, F3>>, <<F1, F3>> }

KeywordLists == { <<>>, <<KwAlpha>>, <<KwBeta>>, <<KwAlpha, KwBeta>> }

\* Every assignment of an answer to each feed of the list.
DocChoices(rss_feeds) ==
  {d \in [DOMAIN rss_feeds -> {D1, D2, D3, D4, D1Fault, Unreachable, Raising}] :
     \A f \in DOMAIN rss_feeds : d[f] \in DocsOf(rss_feeds[f])}

Calls ==
  UNION { { [keywords |-> k, rss_feeds |-> fl, max_results |-> m,
             docs |-> d, now |-> CallClock] :
            k \in KeywordLists, m \in 1..MaxResults, d \in DocChoices(fl) } :
          fl \in FeedLists }

(* ------------------------------------------------------------------ *)
(* State                                                               *)
(* ------------------------------------------------------------------ *)

VARIABLES
  scraped_urls,  \* NewsScraper.scraped_urls of the scheduler's instance
  call,          \* the inputs of the last scrape_news call, or NoCall
  result,        \* the list that call returned
  raised,        \* whether an exception escaped that call
  trace,         \* what that call did: [before, merged, fetched, failed, seen,
                 \* taken],
                 \* and cleared: the URLs returned before a clear_cache that
                 \* came between the call before it and this one
  earlier,       \* the URLs returned by the calls before it, since the last clear
  pe,            \* the entry under normalization (specification SpecEntry)
  run,           \* the blocking step a scrape_news call is at (SpecFetch)
  gs,            \* the last call of the summarization adapter (SpecSummarize)
  bot,           \* the scheduler's scraper and the last request served (SpecBot)
  nu             \* a news source text under normalize_rss_url (SpecSource)

vars == <<scraped_urls, call, result, raised, trace, earlier, pe, run, gs, bot, nu>>

\* feedparser.parse(feed_url): no timeout is passed.
FetchTimeout == [armed |-> FALSE, seconds |-> 0]

\* No scrape_news call is running.
RunIdle ==
  [pc |-> "idle", feeds |-> <<>>, f |-> 0, e |-> 0, timeout |-> FetchTimeout,
   waited |-> 0]

\* No call of the summarization adapter is in progress. upstream is what the
\* one generation call of summarize_combined_articles does and returned the
\* string it gives; upstreams is what the generation call of each article of
\* summarize_individual_articles does, summarized the list it gives and
\* items_after the caller's list once it has returned.
GsIdle ==
  [phase |-> "idle", news_items |-> <<>>,
   upstream |-> [generate |-> "answers", text |-> "answers", reply |-> ""],
   returned |-> "", raised |-> FALSE,
   upstreams |-> <<>>, summarized |-> <<>>, items_after |-> <<>>]

NoCall == [keywords |-> <<>>, rss_feeds |-> <<>>, max_results |-> 0,
           docs |-> <<>>, now |-> 0]

NoTrace ==
  [before |-> {}, merged |-> <<>>, fetched |-> <<>>, failed |-> <<>>,
   seen |-> <<>>, taken |-> <<>>, cleared |-> {}]

PeIdle == [phase |-> "idle"]

\* NewsScraper.__init__: self.scraped_urls = set()
NewScraper == {}

\* NewsBot.__init__, before any request: the scheduler's scraper is new.
BotIdle ==
  [sched |-> NewScraper, who |-> "none", call |-> NoCall, before |-> NewScraper,
   news_items |-> <<>>]

\* No news source text has been sent: the user's stored sources are none.
\* text is the text sent to add a source, url what was stored for it, sent the
\* text sent to remove one and matched the URL the removal looked for.
NuIdle ==
  [phase |-> "idle", text |-> <<>>, url |-> <<>>, stored |-> {},
   sent |-> <<>>, matched |-> <<>>]

\* The url of every item of a list.
Urls(items) == {items[i].url : i \in DOMAIN items}

\* NewsScraper.__init__
Init ==
  /\ scraped_urls = {}
  /\ call = NoCall
  /\ result = <<>>
  /\ raised = FALSE
  /\ trace = NoTrace
  /\ earlier = {}
  /\ pe = PeIdle
  /\ run = RunIdle
  /\ gs = GsIdle
  /\ bot = BotIdle
  /\ nu = NuIdle

\* Every link a catalogue entry carries, trimmed: the horizon holds no other.
AllUrls == {U1, U2, U3, U4, U5}

\* scrape_news evaluated once for every horizon and call (the same values as
\* scrape_news(c, urls); the table only spares evaluating a call again).
ScrapeMemo ==
  [a \in (SUBSET AllUrls) \X Calls |-> scrape_news(a[2], a[1])] @@ << >>

\* One scrape_news call of the long-lived instance (NewsBot.scraper).
ScrapeNews ==
  \E c \in Calls :
    \E r \in {ScrapeMemo[<<scraped_urls, c>>]} :
       /\ scraped_urls' = r.urls
       /\ call' = c
       /\ result' = r.result
       /\ raised' = r.raised
       /\ trace' = [before |-> scraped_urls, merged |-> r.merged,
                    fetched |-> r.fetched, failed |-> r.failed,
                    seen |-> r.seen, taken |-> r.taken,
                    cleared |-> IF call = NoCall THEN trace.cleared ELSE {}]
       /\ earlier' = earlier \cup Urls(result)
       /\ UNCHANGED <<pe, run, gs, bot, nu>>

\* NewsScraper.clear_cache
ClearCache ==
  /\ scraped_urls' = {}
  /\ call' = NoCall
  /\ result' = <<>>
  /\ raised' = FALSE
  /\ trace' = [NoTrace EXCEPT !.cleared = trace.cleared \cup earlier \cup Urls(result)]
  /\ earlier' = {}
  /\ UNCHANGED <<pe, run, gs, bot, nu>>

Next == ScrapeNews \/ ClearCache

Spec == Init /\ [][Next]_vars

(* ------------------------------------------------------------------ *)
(* SpecEntry: _process_entry and _extract_image_url on one entry       *)
(* ------------------------------------------------------------------ *)

\* The length of the long plain-text body.
LongBody == 500

\* n characters of plain text.
X(n) == [i \in 1..n |-> "x"]

\* 208 raw characters that clean to exactly SummaryLimit characters.
BodyMarkup200 ==
  X(SummaryLimit - 2) \o <<" "," ">> \o <<"<","b",">","y","<","/","b",">">>

EntryTitles ==
  { <<>>,
    <<"H","i"," ","t","h","e","r","e">>,
    <<"A","l","p","h","a"," ","w","i","n">>,
    <<" "," ","B","E","T","A"," ","w","i","n","s","!"," "," ">>,
    <<"A","l","p","h","a"," ","a","n","d"," ","B","e","t","a"," ","t","w","o">>,
    <<"N","o","t","h","i","n","g"," ","o","f"," ","n","o","t","e">> }

EntryBodies ==
  { <<>>,
    <<"<","p",">"," ","<","/","p",">">>,
    <<"<","b",">","b","e","t","a","<","/","b",">"," "," ","a","l","p","h","a">>,
    X(SummaryLimit - 1), X(SummaryLimit), X(SummaryLimit + 1), X(LongBody),
    BodyMarkup200 }

EntryLinks == { <<>>, <<" ">>, U1 }

EntryKeywordLists ==
  { <<>>, <<KwAlpha>>, <<KwAlpha, KwBeta>>, <<KwBeta, KwAlpha>>,
    << <<"B","e","t","a">>, <<"A","L","P","H","A">> >>,
    << <<>>, KwAlpha >> }

TextEntries ==
  { Mk(t, b, l, <<30>>) : t \in EntryTitles, b \in EntryBodies, l \in EntryLinks }

ImgJpg == <<"h","t","t","p",":","/","/","i",".","i","o","/","e",".","j","p","g">>

ImgFtp == <<"f","t","p",":","/","/","i",".","i","o","/","e",".","j","p","g">>

ImgNoExt == <<"h","t","t","p",":","/","/","i",".","i","o","/","e">>

ImgThumb == <<"h","t","t","p",":","/","/","i",".","i","o","/","t",".","p","n","g">>

ImgMedia ==
  <<"h","t","t","p","s",":","/","/","i",".","i","o","/","m",".","W","E","B","P","?","w","=","1">>

Mp3 == <<"h","t","t","p",":","/","/","i",".","i","o","/","a",".","m","p","3">>

TypePng == <<"i","m","a","g","e","/","p","n","g">>

TypeAudio == <<"a","u","d","i","o","/","m","p","e","g">>

\* <img src="//i.io/b.png">
BodyWithImg ==
  <<"<","i","m","g"," ","s","r","c","=","\"","/","/","i",".","i","o","/","b",".","p","n","g","\"",">">>

\* <IMG alt="a" SRC='/c.gif'>
ContentWithImg ==
  <<"<","I","M","G"," ","a","l","t","=","\"","a","\""," ","S","R","C","=","'","/","c",".","g","i","f","'",">">>

EnclosureChoices ==
  { <<>>,
    << [type |-> TypePng, href |-> ImgJpg] >>,
    << [type |-> TypeAudio, href |-> Mp3], [type |-> TypePng, href |-> ImgJpg] >>,
    << [type |-> TypePng, href |-> ImgFtp] >>,
    << [type |-> TypePng, href |-> ImgNoExt] >>,
    << [type |-> TypePng] >> }

ThumbnailChoices == { <<>>, << [url |-> ImgThumb] >>, << [width |-> 1] >> }

MediaChoices == { <<>>, << [type |-> TypePng, url |-> ImgMedia] >> }

ContentChoices == { <<>>, << [type |-> TextHtml, value |-> ContentWithImg] >> }

HeadAnswers ==
  { HeadFails,
    [fails |-> FALSE, status |-> 404, content_type |-> TypePng],
    [fails |-> FALSE, status |-> 200, content_type |-> <<"I","m","a","g","e","/","P","N","G">>],
    [fails |-> FALSE, status |-> 200, content_type |-> TextHtml] }

ImageEntries ==
  { [eA2 EXCEPT !.enclosures = en, !.media_thumbnail = th, !.media_content = mc,
                !.summary = b, !.content = co, !.head = h] :
      en \in EnclosureChoices, th \in ThumbnailChoices, mc \in MediaChoices,
      b \in {<<>>, BodyWithImg}, co \in ContentChoices, h \in HeadAnswers }

\* What feedparser leaves of a date element: nothing, the text alone when it
\* does not parse, or the text and the time parsed from it.
DateChoices(t) ==
  { [text |-> <<>>, parsed |-> <<>>],
    [text |-> DateText, parsed |-> <<>>],
    [text |-> DateText, parsed |-> <<t>>] }

\* eA1 under every pair of a published and an updated element, the updated
\* time the later one.
DateEntries ==
  { [eA1 EXCEPT !.published = p.text, !.published_parsed = p.parsed,
                !.updated = u.text, !.updated_parsed = u.parsed] :
      p \in DateChoices(30), u \in DateChoices(40) }

\* http://i.io/e.jpg#top
ImgFragment == <<"h","t","t","p",":","/","/","i",".","i","o","/","e",".","j","p","g","#","t","o","p">>

\* HTTP://i.io/e.jpg
ImgUpperScheme == <<"H","T","T","P",":","/","/","i",".","i","o","/","e",".","j","p","g">>

\* One image enclosure under every answer to the HEAD request.
ProbeEntries ==
  { [eA2 EXCEPT !.enclosures = << [type |-> TypePng, href |-> u] >>, !.head = h] :
      u \in {ImgJpg, ImgNoExt, ImgFragment, ImgUpperScheme}, h \in HeadAnswers }

\* https://m.io:81/x?y=/z
LinkPort == <<"h","t","t","p","s",":","/","/","m",".","i","o",":","8","1","/","x","?","y","=","/","z">>

\* http://[n.io/2 : urlparse raises ValueError.
LinkBadBracket == <<"h","t","t","p",":","/","/","[","n",".","i","o","/","2">>

\* n.io/2 : no scheme, so no host.
LinkNoScheme == <<"n",".","i","o","/","2">>

\* A root-relative and a protocol-relative image under every kind of link.
RepairEntries ==
  { [eA2 EXCEPT !.link = l, !.summary = b, !.content = co] :
      l \in {U2, LinkPort, LinkBadBracket, LinkNoScheme},
      b \in {<<>>, BodyWithImg}, co \in ContentChoices }

\* http://a.www.b.io/f : "www." inside the host.
FeedInnerWww == <<"h","t","t","p",":","/","/","a",".","w","w","w",".","b",".","i","o","/","f">>

\* http://www.awww.io/f : "www." at the head of the host and inside it.
FeedTwiceWww == <<"h","t","t","p",":","/","/","w","w","w",".","a","w","w","w",".","i","o","/","f">>

\* http://[b.io/f : urlparse raises ValueError.
FeedBadBracket == <<"h","t","t","p",":","/","/","[","b",".","i","o","/","f">>

\* www.b.io/f : no scheme, so no host.
FeedNoScheme == <<"w","w","w",".","b",".","i","o","/","f">>

FeedUrlChoices == {F1, F2, F3, FeedInnerWww, FeedTwiceWww, FeedBadBracket, FeedNoScheme}

EntryInputs ==
  { [phase |-> "input", entry |-> eA1, keywords |-> <<KwAlpha>>, feed_url |-> u,
     now |-> CallClock, item |-> None, image |-> NoImage,
     candidate |-> <<>>, checked |-> <<>>, probed |-> FALSE, escaped |-> FALSE] :
      u \in FeedUrlChoices }
  \cup
  { [phase |-> "input", entry |-> e, keywords |-> k, feed_url |-> F2,
     now |-> CallClock, item |-> None, image |-> NoImage,
     candidate |-> <<>>, checked |-> <<>>, probed |-> FALSE, escaped |-> FALSE] :
      e \in TextEntries, k \in EntryKeywordLists }
  \cup
  { [phase |-> "input", entry |-> e, keywords |-> <<KwAlpha>>, feed_url |-> F2,
     now |-> CallClock, item |-> None, image |-> NoImage,
     candidate |-> <<>>, checked |-> <<>>, probed |-> FALSE, escaped |-> FALSE] :
      e \in DateEntries }
  \cup
  { [phase |-> "input", entry |-> e, keywords |-> <<KwAlpha>>, feed_url |-> F2,
     now |-> CallClock, item |-> None, image |-> NoImage,
     candidate |-> <<>>, checked |-> <<>>, probed |-> FALSE, escaped |-> FALSE] :
      e \in ImageEntries \cup ProbeEntries \cup RepairEntries }

InitEntry ==
  /\ scraped_urls = {}
  /\ call = NoCall
  /\ result = <<>>
  /\ raised = FALSE
  /\ trace = NoTrace
  /\ earlier = {}
  /\ pe \in EntryInputs
  /\ run = RunIdle
  /\ gs = GsIdle
  /\ bot = BotIdle
  /\ nu = NuIdle

\* _process_entry(entry, keywords, feed_url)
ProcessEntry ==
  /\ pe.phase = "input"
  /\ pe' = [pe EXCEPT !.phase = "normalized",
                      !.item = process_entry(pe.entry, pe.keywords, pe.feed_url, pe.now)]
  /\ UNCHANGED <<scraped_urls, call, result, raised, trace, earlier, run, gs, bot, nu>>

\* _extract_image_url(entry)
ExtractImage ==
  /\ pe.phase = "input"
  /\ pe' = [pe EXCEPT !.phase = "extracted",
                      !.image = extract_image_url(pe.entry),
                      !.candidate = Candidate(pe.entry),
                      !.checked = CheckedUrl(pe.entry),
                      !.probed = ProbeIssued(CheckedUrl(pe.entry)),
                      !.escaped = ExtractionEscapes(pe.entry)]
  /\ UNCHANGED <<scraped_urls, call, result, raised, trace, earlier, run, gs, bot, nu>>

NextEntry == ProcessEntry \/ ExtractImage

SpecEntry == InitEntry /\ [][NextEntry]_vars

(* ------------------------------------------------------------------ *)
(* SpecFetch: the steps of a scrape_news call that wait on a source    *)
(* ------------------------------------------------------------------ *)
(* A source answers, raises, or stays silent: it accepts the           *)
(* connection and never sends a byte.  A feed is [fetch, probes]: what *)
(* its source does when fetched and what the image hosts do when the   *)
(* entries of the feed have their image URLs probed.  waited counts    *)
(* the seconds the call has spent in the step it is at.                *)

\* requests.head(url, timeout=5, allow_redirects=True)
ProbeSeconds == 5

ProbeTimeout == [armed |-> TRUE, seconds |-> ProbeSeconds]

\* The seconds a wait is followed for.
MaxWait == 6

MaxFeeds == 2

MaxProbes == 2

Behaviours == {"answers", "raises", "silent"}

ProbeLists == UNION { [1..n -> Behaviours] : n \in 0..MaxProbes }

Sources ==
  { [fetch |-> "answers", probes |-> ps] : ps \in ProbeLists }
    \cup { [fetch |-> b, probes |-> <<>>] : b \in {"raises", "silent"} }

SourceLists == UNION { [1..n -> Sources] : n \in 0..MaxFeeds }

\* The blocking call gives up: the library raises its timeout error.
TimedOut(timeout, waited) == timeout.armed /\ waited >= timeout.seconds

\* for feed_url in rss_feeds: the loop goes on to the next feed, or the call
\* returns.
NextFeed(r) ==
  IF r.f < Len(r.feeds)
  THEN [r EXCEPT !.pc = "fetch", !.f = r.f + 1, !.e = 0,
                 !.timeout = FetchTimeout, !.waited = 0]
  ELSE [r EXCEPT !.pc = "returned", !.waited = 0]

\* for entry in feed.entries[...]: the next HEAD request of the feed, or the
\* end of the feed.
NextProbe(r) ==
  IF r.e < Len(r.feeds[r.f].probes)
  THEN [r EXCEPT !.pc = "probe", !.e = r.e + 1,
                 !.timeout = ProbeTimeout, !.waited = 0]
  ELSE NextFeed(r)

\* What the source of the step the call is at does.
Awaited(r) ==
  IF r.pc = "fetch" THEN r.feeds[r.f].fetch ELSE r.feeds[r.f].probes[r.e]

Waiting(r) == r.pc \in {"fetch", "probe"}

InitFetch ==
  /\ scraped_urls = {}
  /\ call = NoCall
  /\ result = <<>>
  /\ raised = FALSE
  /\ trace = NoTrace
  /\ earlier = {}
  /\ pe = PeIdle
  /\ run = RunIdle
  /\ gs = GsIdle
  /\ bot = BotIdle
  /\ nu = NuIdle

\* scrape_news is called.
StartCall ==
  /\ run.pc = "idle"
  /\ \E fs \in SourceLists : run' = NextFeed([RunIdle EXCEPT !.feeds = fs])
  /\ UNCHANGED <<scraped_urls, call, result, raised, trace, earlier, pe, gs, bot, nu>>

\* feedparser.parse returns.
FetchAnswers ==
  /\ run.pc = "fetch"
  /\ Awaited(run) = "answers"
  /\ run' = NextProbe(run)
  /\ UNCHANGED <<scraped_urls, call, result, raised, trace, earlier, pe, gs, bot, nu>>

\* feedparser.parse raises: except Exception, continue.
FetchRaises ==
  /\ run.pc = "fetch"
  /\ Awaited(run) = "raises"
  /\ run' = NextFeed(run)
  /\ UNCHANGED <<scraped_urls, call, result, raised, trace, earlier, pe, gs, bot, nu>>

\* A second passes while the call waits on a silent source.
Wait ==
  /\ Waiting(run)
  /\ Awaited(run) = "silent"
  /\ ~TimedOut(run.timeout, run.waited)
  /\ run.waited < MaxWait
  /\ run' = [run EXCEPT !.waited = run.waited + 1]
  /\ UNCHANGED <<scraped_urls, call, result, raised, trace, earlier, pe, gs, bot, nu>>

\* requests.head returns.
ProbeAnswers ==
  /\ run.pc = "probe"
  /\ Awaited(run) = "answers"
  /\ run' = NextProbe(run)
  /\ UNCHANGED <<scraped_urls, call, result, raised, trace, earlier, pe, gs, bot, nu>>

\* requests.head raises: except, return False.
ProbeRaises ==
  /\ run.pc = "probe"
  /\ Awaited(run) = "raises"
  /\ run' = NextProbe(run)
  /\ UNCHANGED <<scraped_urls, call, result, raised, trace, earlier, pe, gs, bot, nu>>

\* requests.head gives up after its timeout: except, return False.
ProbeTimesOut ==
  /\ run.pc = "probe"
  /\ Awaited(run) = "silent"
  /\ TimedOut(run.timeout, run.waited)
  /\ run' = NextProbe(run)
  /\ UNCHANGED <<scraped_urls, call, result, raised, trace, earlier, pe, gs, bot, nu>>

\* return final_results
CallReturns ==
  /\ run.pc = "returned"
  /\ run' = RunIdle
  /\ UNCHANGED <<scraped_urls, call, result, raised, trace, earlier, pe, gs, bot, nu>>

NextFetch ==
  \/ StartCall
  \/ FetchAnswers
  \/ FetchRaises
  \/ Wait
  \/ ProbeAnswers
  \/ ProbeRaises
  \/ ProbeTimesOut
  \/ CallReturns

SpecFetch == InitFetch /\ [][NextFetch]_vars

(* ------------------------------------------------------------------ *)
(* SpecBot: the scheduled job and the on-demand handlers               *)
(* ------------------------------------------------------------------ *)
(* bot.sched is the horizon of NewsBot.scraper, the one instance that  *)
(* lives as long as the process; who, call, before and news_items are  *)
(* the last request served, the scrape_news call it made, the horizon  *)
(* its scraper held before the call and the list the call returned.    *)

Handlers == {"get_news_now", "ai_individual_news", "ai_combined_news"}

\* The calls of the bot: config.KEYWORDS, a list of feeds that is not empty,
\* config.MAX_NEWS_PER_KEYWORD.
BotCalls ==
  {c \in Calls : c.keywords = <<KwAlpha, KwBeta>> /\ c.rss_feeds # <<>>}

\* HandlerScraper with the scheduler's instance in the place of a new one.
HandlerScraperShared(sched) == sched

\* scraper = NewsScraper() in a handler.
HandlerScraper(sched) == NewScraper

InitBot ==
  /\ scraped_urls = {}
  /\ call = NoCall
  /\ result = <<>>
  /\ raised = FALSE
  /\ trace = NoTrace
  /\ earlier = {}
  /\ pe = PeIdle
  /\ run = RunIdle
  /\ gs = GsIdle
  /\ bot = BotIdle
  /\ nu = NuIdle

\* NewsBot.fetch_and_send_news: self.scraper.scrape_news(...)
FetchAndSendNews ==
  /\ \E c \in BotCalls :
       \E r \in {ScrapeMemo[<<bot.sched, c>>]} :
          bot' = [sched |-> r.urls, who |-> "fetch_and_send_news", call |-> c,
                  before |-> bot.sched, news_items |-> r.result]
  /\ UNCHANGED <<scraped_urls, call, result, raised, trace, earlier, pe, run, gs, nu>>

\* A handler's request: scraper = NewsScraper();
\* news_items = scraper.scrape_news(...). The scheduler's scraper is not used.
Served(handler, c) ==
  [sched |-> bot.sched, who |-> handler, call |-> c,
   before |-> HandlerScraper(bot.sched),
   news_items |-> ScrapeMemo[<<HandlerScraper(bot.sched), c>>].result]

\* handlers.get_news_now
GetNewsNow ==
  /\ \E c \in BotCalls : bot' = Served("get_news_now", c)
  /\ UNCHANGED <<scraped_urls, call, result, raised, trace, earlier, pe, run, gs, nu>>

\* handlers.ai_individual_news
AiIndividualNews ==
  /\ \E c \in BotCalls : bot' = Served("ai_individual_news", c)
  /\ UNCHANGED <<scraped_urls, call, result, raised, trace, earlier, pe, run, gs, nu>>

\* handlers.ai_combined_news
AiCombinedNews ==
  /\ \E c \in BotCalls : bot' = Served("ai_combined_news", c)
  /\ UNCHANGED <<scraped_urls, call, result, raised, trace, earlier, pe, run, gs, nu>>

NextBot ==
  \/ FetchAndSendNews
  \/ GetNewsNow
  \/ AiIndividualNews
  \/ AiCombinedNews

SpecBot == InitBot /\ [][NextBot]_vars

(* ------------------------------------------------------------------ *)
(* SpecSummarize: GeminiService.summarize_combined_articles            *)
(* ------------------------------------------------------------------ *)
(* The upstream is [generate, text, reply]: whether generate_content   *)
(* answers or raises, whether reading response.text answers or raises, *)
(* and the text it holds.                                              *)

\* The string the except clause returns (after a warning sign).
Fallback == "Unable to generate combined AI summary at this time."

ArticleKeys == {"title", "summary", "source", "keyword"}

Article1 ==
  [title |-> "Alpha news one", summary |-> "plain text", source |-> "a.io",
   keyword |-> "alpha"]

Article2 ==
  [title |-> "Beta news three", summary |-> "Click to read more...",
   source |-> "b.io", keyword |-> "beta"]

ArticleNoKeyword ==
  [title |-> "Alpha news one", summary |-> "plain text", source |-> "a.io"]

ArticleNoSummary ==
  [title |-> "Beta news three", source |-> "b.io", keyword |-> "beta"]

Articles == {Article1, Article2, ArticleNoKeyword, ArticleNoSummary}

MaxItems == 2

NewsItemLists == UNION { [1..n -> Articles] : n \in 0..MaxItems }

Replies == {"", "KEY FACTS", Fallback}

Upstreams ==
  { [generate |-> "answers", text |-> "answers", reply |-> t] : t \in Replies }
    \cup { [generate |-> "raises", text |-> "answers", reply |-> ""],
           [generate |-> "answers", text |-> "raises", reply |-> ""] }

\* article['title'] ... article['keyword'] of an article lacking one: KeyError.
PromptRaises(news_items) ==
  \E i \in DOMAIN news_items : ~(ArticleKeys \subseteq DOMAIN news_items[i])

\* _create_combined_prompt: the count of the articles and, of each, its
\* number, title, summary, source and keyword.
create_combined_prompt(news_items) ==
  [count |-> Len(news_items),
   articles |-> [i \in DOMAIN news_items |->
                   <<i, news_items[i].title, news_items[i].summary,
                     news_items[i].source, news_items[i].keyword>>]]

\* self.model.generate_content(prompt)
GenerateRaises(upstream, prompt) == upstream.generate = "raises"

\* response.text
TextRaises(upstream) == upstream.text = "raises"

\* The except clause re-raising.
OnSummaryErrorRaises == [returned |-> "", raised |-> TRUE]

\* except Exception as e: log, return the fallback string.
OnSummaryError == [returned |-> Fallback, raised |-> FALSE]

\* summarize_combined_articles(news_items): [returned, raised]
summarize_combined_articles(news_items, upstream) ==
  IF PromptRaises(news_items) THEN OnSummaryError
  ELSE IF GenerateRaises(upstream, create_combined_prompt(news_items))
  THEN OnSummaryError
  ELSE IF TextRaises(upstream) THEN OnSummaryError
  ELSE [returned |-> upstream.reply, raised |-> FALSE]

InitSummarize ==
  /\ scraped_urls = {}
  /\ call = NoCall
  /\ result = <<>>
  /\ raised = FALSE
  /\ trace = NoTrace
  /\ earlier = {}
  /\ pe = PeIdle
  /\ run = RunIdle
  /\ gs = GsIdle
  /\ bot = BotIdle
  /\ nu = NuIdle

\* The string the except clause of summarize_individual_articles stores
\* (after a warning sign).
Unavailable == "AI summary unavailable for this article."

\* article['title'] at the log line, article['title'] ... article['keyword']
\* in _create_individual_prompt, of an article lacking one: KeyError.
IndividualPromptRaises(article) == ~(ArticleKeys \subseteq DOMAIN article)

\* _create_individual_prompt: the title, summary, source and keyword.
create_individual_prompt(article) ==
  <<article.title, article.summary, article.source, article.keyword>>

\* article_copy = article.copy(); article_copy['ai_summary'] = text
WithSummary(article, text) == [ai_summary |-> text] @@ article

\* The caller's record after article.copy() and the write to the copy.
ArticleAfter(article, text) == article

\* The except clause appending nothing.
OnArticleErrorSkips(article) == <<>>

\* except Exception as e: log, append a copy holding the fixed text.
OnArticleError(article) == <<WithSummary(article, Unavailable)>>

\* One turn of the loop failed: the prompt, generate_content or response.text
\* raised.
ArticleFails(article, upstream) ==
  \/ IndividualPromptRaises(article)
  \/ GenerateRaises(upstream, create_individual_prompt(article))
  \/ TextRaises(upstream)

\* What one turn of the loop appends to summarized_articles.
SummarizeOne(article, upstream) ==
  IF ArticleFails(article, upstream) THEN OnArticleError(article)
  ELSE <<WithSummary(article, upstream.reply)>>

\* The caller's record after one turn of the loop.
AfterOne(article, upstream) ==
  IF ArticleFails(article, upstream) THEN ArticleAfter(article, Unavailable)
  ELSE ArticleAfter(article, upstream.reply)

RECURSIVE SummarizeFrom(_, _, _)
\* for i, article in enumerate(news_items, 1): from article i to the last.
SummarizeFrom(news_items, upstreams, i) ==
  IF i > Len(news_items) THEN <<>>
  ELSE SummarizeOne(news_items[i], upstreams[i])
         \o SummarizeFrom(news_items, upstreams, i + 1)

\* summarize_individual_articles(news_items): [summarized, raised, items_after]
summarize_individual_articles(news_items, upstreams) ==
  [summarized |-> SummarizeFrom(news_items, upstreams, 1),
   raised |-> FALSE,
   items_after |-> [i \in DOMAIN news_items |->
                      AfterOne(news_items[i], upstreams[i])]]

SummarizeCombined ==
  /\ gs.phase \in {"idle", "returned"}
  /\ \E items \in NewsItemLists : \E up \in Upstreams :
       \E r \in {summarize_combined_articles(items, up)} :
         gs' = [phase |-> "done", news_items |-> items, upstream |-> up,
                returned |-> r.returned, raised |-> r.raised,
                upstreams |-> <<>>, summarized |-> <<>>,
                items_after |-> items]
  /\ UNCHANGED <<scraped_urls, call, result, raised, trace, earlier, pe, run, bot, nu>>

SummarizeIndividual ==
  /\ gs.phase \in {"idle", "returned"}
  /\ \E items \in NewsItemLists : \E ups \in [DOMAIN items -> Upstreams] :
       \E r \in {summarize_individual_articles(items, ups)} :
         gs' = [phase |-> "done_individual", news_items |-> items,
                upstream |-> GsIdle.upstream, returned |-> "",
                raised |-> r.raised, upstreams |-> ups,
                summarized |-> r.summarized, items_after |-> r.items_after]
  /\ UNCHANGED <<scraped_urls, call, result, raised, trace, earlier, pe, run, bot, nu>>

\* The caller has the value; the adapter waits for the next call.
SummaryReturns ==
  /\ gs.phase \in {"done", "done_individual"}
  /\ gs' = [GsIdle EXCEPT !.phase = "returned"]
  /\ UNCHANGED <<scraped_urls, call, result, raised, trace, earlier, pe, run, bot, nu>>

NextSummarize ==
  \/ SummarizeCombined
  \/ SummarizeIndividual
  \/ SummaryReturns

SpecSummarize == InitSummarize /\ [][NextSummarize]_vars

(* ------------------------------------------------------------------ *)
(* SpecSource: normalize_rss_url and the add / remove source handlers  *)
(* ------------------------------------------------------------------ *)

\* The words re.search(r"(rss|feed|xml)", url, re.IGNORECASE) looks for.
FeedWords == {<<"r","s","s">>, <<"f","e","e","d">>, <<"x","m","l">>}

\* re.search(r"(rss|feed|xml)", url, re.IGNORECASE)
LooksLikeFeed(url) == \E w \in FeedWords : contains(w, lower(url))

\* normalize_rss_url(raw_url)
normalize_rss_url(raw_url) ==
  LET url == strip(raw_url)
      with_scheme == IF startswith(url, HttpPrefix) \/ startswith(url, HttpsPrefix)
                     THEN url ELSE HttpsPrefix \o url
  IN IF LooksLikeFeed(with_scheme) THEN with_scheme
     ELSE IF endswith(with_scheme, <<"/">>) THEN with_scheme \o <<"r","s","s">>
     ELSE with_scheme \o <<"/","r","s","s">>

\* The first character of the labels of the remove buttons, U+274C.
CrossMark == "(x)"

\* The first characters of the label of the back button, U+2B05 U+FE0F.
LeftArrow == "(<-)"

RemoveLabel == <<CrossMark," ","R","e","m","o","v","e">>

BackLabel == <<LeftArrow," ","B","a","c","k">>

RemoveAssetLabel ==
  <<CrossMark," ","R","e","m","o","v","e"," ","A","s","s","e","t">>

RemoveSourceLabel ==
  <<CrossMark," ","R","e","m","o","v","e"," ","N","e","w","s"," ",
    "S","o","u","r","c","e">>

\* The labels handle_text_messages tests before it looks at the state, of
\* those the remove branch names: a text equal to one never reaches the
\* stateful branches.
MenuCommands == {RemoveLabel, BackLabel}

\* if text in ["❌ Remove Asset", "❌ Remove News Source", "❌ Remove",
\* "⬅️ Back"]: return
RemoveIgnored ==
  {RemoveAssetLabel, RemoveSourceLabel, RemoveLabel, BackLabel}

\* The pieces the texts of the model are made of.
Pieces ==
  { <<" ">>, HttpPrefix, HttpsPrefix, <<"H","T","T","P",":","/","/">>,
    <<"a",".","i","o">>, <<"/">>, <<"r","s">>, <<"s">>, <<"F","e","e","d">> }

MaxPieces == 3

RECURSIVE Flatten(_)
Flatten(ps) == IF ps = <<>> THEN <<>> ELSE Head(ps) \o Flatten(Tail(ps))

\* The texts a user sends: up to MaxPieces pieces in a row, and the labels of
\* the buttons, alone or after a blank.
SourceTexts ==
  { Flatten(ps) : ps \in UNION { [1..n -> Pieces] : n \in 0..MaxPieces } }
    \cup RemoveIgnored \cup { <<" ">> \o l : l \in RemoveIgnored }

\* UserNewsSource.url.ilike(f"%{url.strip()}%"), for a url holding neither %
\* nor _.
ILike(stored_url, url) == contains(lower(strip(url)), lower(stored_url))

\* DatabaseService.remove_news_source(telegram_id, url), the statements
\* succeeding: [stored, matched, success]
remove_news_source(stored, url) ==
  LET normalized == normalize_rss_url(url)
      loose == {u \in stored : ILike(u, url)}
  IN IF normalized \in stored
     THEN [stored |-> stored \ {normalized}, matched |-> normalized,
           success |-> TRUE]
     ELSE [stored |-> stored \ loose, matched |-> normalized,
           success |-> loose # {}]

InitSource ==
  /\ scraped_urls = {}
  /\ call = NoCall
  /\ result = <<>>
  /\ raised = FALSE
  /\ trace = NoTrace
  /\ earlier = {}
  /\ pe = PeIdle
  /\ run = RunIdle
  /\ gs = GsIdle
  /\ bot = BotIdle
  /\ nu = NuIdle

\* handle_text_messages in state WAITING_FOR_SOURCE, add_news_source
\* succeeding.
AddSource ==
  /\ nu.phase = "idle"
  /\ \E text \in SourceTexts \ MenuCommands :
       \E url \in {normalize_rss_url(strip(text))} :
         nu' = [nu EXCEPT !.phase = "added", !.text = text, !.url = url,
                          !.stored = nu.stored \cup {url}]
  /\ UNCHANGED <<scraped_urls, call, result, raised, trace, earlier, pe, run, gs, bot>>

\* handle_text_messages in state WAITING_FOR_REMOVE_SOURCE: the text sent is
\* the text the source was added with, or the URL the list of sources shows.
RemoveSource ==
  /\ nu.phase = "added"
  /\ \E text \in {nu.text, nu.url} \ MenuCommands :
       IF text \in RemoveIgnored
       THEN nu' = [nu EXCEPT !.phase = "ignored", !.sent = text]
       ELSE \E r \in {remove_news_source(nu.stored,
                                         normalize_rss_url(strip(text)))} :
              nu' = [nu EXCEPT !.phase = IF r.success THEN "removed"
                                         ELSE "not_removed",
                               !.sent = text, !.stored = r.stored,
                               !.matched = r.matched]
  /\ UNCHANGED <<scraped_urls, call, result, raised, trace, earlier, pe, run, gs, bot>>

NextSource ==
  \/ AddSource
  \/ RemoveSource

SpecSource == InitSource /\ [][NextSource]_vars

(* ------------------------------------------------------------------ *)
(* Properties of scrape_news (specification Spec)                      *)
(* ------------------------------------------------------------------ *)

Range(s) == {s[i] : i \in DOMAIN s}

\* The entries the last call normalized, as <<feed, entry>> positions.
Examined == Range(trace.seen)

EntryAt(p) == call.docs[p[1]].entries[p[2]]

\* Every <<feed, entry>> position of the documents the last call was given.
Offered ==
  UNION { {<<f, i>> : i \in DOMAIN call.docs[f].entries} : f \in DOMAIN call.docs }

\* The entry at p passes normalization under the keywords of the last call.
Acceptable(p) ==
  process_entry(EntryAt(p), call.keywords, call.rss_feeds[p[1]], call.now) # None

\* C1: on one instance with no clear_cache in between, no URL appears in the
\* results of two different calls: the last call returned no URL that an
\* earlier call returned.
C1_NoUrlReturnedTwice == Urls(result) \cap earlier = {}

\* A later call that returned items although a feed offered again an
\* acceptable entry whose URL an earlier call had returned.
C1_Witness ==
  /\ earlier # {}
  /\ result # <<>>
  /\ \E p \in Examined : Acceptable(p) /\ strip(EntryAt(p).link) \in earlier

\* C2: the returned list has at most max_results * len(keywords) items.
C2_CapRespected == Len(result) <= call.max_results * Len(call.keywords)

\* A call on a non-empty horizon whose feeds yielded more than the target.
C2_Witness ==
  /\ trace.before # {}
  /\ call.max_results * Len(call.keywords) > 0
  /\ Len(trace.merged) > call.max_results * Len(call.keywords)
  /\ Len(result) = call.max_results * Len(call.keywords)

\* C3: published_date is non-increasing from the first returned item to the
\* last.
C3_NewestFirst ==
  \A i \in 1..(Len(result) - 1) :
     result[i].published_date >= result[i + 1].published_date

\* A returned list of several items, merged out of order, one of them from an
\* entry without any date (published_date is the ingestion time).
C3_Witness ==
  /\ Len(result) >= 2
  /\ \E i \in 1..(Len(trace.merged) - 1) :
        trace.merged[i].published_date < trace.merged[i + 1].published_date
  /\ \E p \in Examined :
        /\ EntryAt(p).published = <<>>
        /\ EntryAt(p).updated = <<>>
        /\ EntryAt(p).pubDate = <<>>
        /\ strip(EntryAt(p).link) \in Urls(result)

\* C4: no two items of one returned list share a url.
C4_UniqueUrls ==
  \A i, j \in DOMAIN result : i # j => result[i].url # result[j].url

\* A call that normalized two acceptable entries of one feed with the same
\* link, the URL being returned, and two acceptable entries of different feeds
\* with the same link.
C4_Witness ==
  /\ \E p, q \in Examined :
        /\ p[1] = q[1] /\ p[2] < q[2]
        /\ strip(EntryAt(p).link) = strip(EntryAt(q).link)
        /\ Acceptable(p) /\ Acceptable(q)
        /\ strip(EntryAt(p).link) \in Urls(result)
  /\ \E p, q \in Examined :
        /\ p[1] < q[1]
        /\ strip(EntryAt(p).link) = strip(EntryAt(q).link)
        /\ Acceptable(p) /\ Acceptable(q)

\* C6: every returned item has a title of at least 10 characters after
\* trimming and a non-empty url; an examined entry whose trimmed title is
\* empty or shorter than 10 characters, or whose trimmed link is empty, gives
\* no item.
C6_TitleAndUrl ==
  /\ \A i \in DOMAIN result :
        Len(strip(result[i].title)) >= 10 /\ result[i].url # <<>>
  /\ \A p \in Examined :
        (Len(strip(EntryAt(p).title)) < 10 \/ strip(EntryAt(p).link) = <<>>)
          => ~\E i \in DOMAIN result :
                /\ result[i].title = strip(EntryAt(p).title)
                /\ result[i].url = strip(EntryAt(p).link)

\* A call that returned items and normalized an entry with an 8-character
\* title, a link and a keyword in its text, an entry with a blank title and
\* an entry with a blank link.
C6_Witness ==
  /\ result # <<>>
  /\ \E p \in Examined :
        /\ Len(strip(EntryAt(p).title)) = 8
        /\ strip(EntryAt(p).link) # <<>>
        /\ \E k \in DOMAIN call.keywords :
              contains(lower(call.keywords[k]), CombinedText(EntryAt(p)))
  /\ \E p \in Examined :
        EntryAt(p).title # <<>> /\ strip(EntryAt(p).title) = <<>>
  /\ \E p \in Examined :
        Len(strip(EntryAt(p).title)) >= 10 /\ strip(EntryAt(p).link) = <<>>

\* The item was built from the f-th feed of the last call.
FromFeed(item, f) == item.source = get_domain(call.rss_feeds[f])

\* The URLs of the acceptable entries among the first n of the f-th feed that
\* were not in the horizon when the last call began.
FreshUrls(f, n) ==
  { strip(EntryAt(<<f, i>>).link) :
      i \in {j \in DOMAIN call.docs[f].entries : j <= n /\ Acceptable(<<f, j>>)} }
    \ trace.before

\* Three feeds, the second of which raises or comes back without entries.
SecondUnreachable ==
  /\ Len(call.rss_feeds) = 3
  /\ call.docs[2].raises \/ (call.docs[2].bozo /\ call.docs[2].entries = <<>>)

\* Nothing raises while the f-th feed of the last call is fetched and scanned.
Sound(f) == ~call.docs[f].raises /\ call.docs[f].fault_at = 0

\* C8 as stated: with three feeds, the second unreachable, the first and the
\* third sound and each holding matching unseen entries, no exception leaves
\* the call and the result holds items of the first and of the third feed and
\* none of the second.
C8_AsStated ==
  ( /\ SecondUnreachable
    /\ Sound(1) /\ Sound(3)
    /\ FreshUrls(1, Len(call.docs[1].entries)) # {}
    /\ FreshUrls(3, Len(call.docs[3].entries)) # {} )
  => /\ ~raised
     /\ \E i \in DOMAIN result : FromFeed(result[i], 1)
     /\ \E i \in DOMAIN result : FromFeed(result[i], 3)
     /\ \A i \in DOMAIN result : ~FromFeed(result[i], 2)

\* C8: with three feeds, the second unreachable, no exception leaves the call
\* and every returned item is of the first or of the third feed; the result
\* holds items of both when at least two keywords are given, neither of the
\* two feeds raises and each holds, among its first 3 * max_results entries, a
\* matching entry with an unseen URL, the third's not offered by the first as
\* well.
C8_SkipsUnreachableFeed ==
  SecondUnreachable
  => /\ ~raised
     /\ \A i \in DOMAIN result : FromFeed(result[i], 1) \/ FromFeed(result[i], 3)
     /\ ( /\ Len(call.keywords) >= 2
          /\ Sound(1) /\ Sound(3)
          /\ FreshUrls(1, 3 * call.max_results) # {}
          /\ FreshUrls(3, 3 * call.max_results)
               \ {strip(EntryAt(<<1, i>>).link) : i \in DOMAIN call.docs[1].entries} # {} )
        => /\ \E i \in DOMAIN result : FromFeed(result[i], 1)
           /\ \E i \in DOMAIN result : FromFeed(result[i], 3)

\* A call with two keywords whose second feed raised when fetched and whose
\* result holds items of the first and of the third feed.
C8_Witness ==
  /\ SecondUnreachable
  /\ call.docs[2].raises
  /\ 2 \in Range(trace.fetched)
  /\ Len(call.keywords) >= 2
  /\ \E i \in DOMAIN result : FromFeed(result[i], 1)
  /\ \E i \in DOMAIN result : FromFeed(result[i], 3)

\* No entry any feed offers is both acceptable and outside the horizon.
NothingToAccept ==
  \A p \in Offered : Acceptable(p) => strip(EntryAt(p).link) \in trace.before

\* C10: with an empty keyword list, an empty feed list, or no feed yielding an
\* accepted item, the call returns an empty list and raises nothing.
C10_EmptyIsNotAnError ==
  (call.keywords = <<>> \/ call.rss_feeds = <<>> \/ NothingToAccept)
    => result = <<>> /\ ~raised

\* A call with keywords and three feeds, the second raising when fetched, that
\* normalized entries and found none to accept.
C10_Witness ==
  /\ call.keywords # <<>>
  /\ Len(call.rss_feeds) = 3
  /\ call.docs[2].raises
  /\ 2 \in Range(trace.fetched)
  /\ \E p \in Examined : Acceptable(p)
  /\ NothingToAccept
  /\ result = <<>>
  /\ ~raised

\* The entries the last call accepted, as <<feed, entry>> positions.
Taken == Range(trace.taken)

\* The URLs of the list the last call held before the final sort and cut.
MergedUrls == Urls(trace.merged)

C14_AsStated == scraped_urls = earlier \cup Urls(result)

\* C15: a scrape_news call, raising feeds or not, leaves every URL of the
\* horizon in it, and clear_cache leaves the horizon empty.
C15_HorizonOnlyGrows ==
  [][ /\ call' # NoCall => scraped_urls \subseteq scraped_urls'
      /\ call' = NoCall => scraped_urls' = {} ]_vars

\* The first call after a clear_cache, one of whose feeds raised, returned a
\* URL that had been returned before the clear and put it in the horizon.
C15_Witness ==
  /\ call # NoCall
  /\ trace.before = {}
  /\ trace.failed # <<>>
  /\ trace.cleared \cap Urls(result) \cap scraped_urls # {}

\* The number of merged items the feeds before the f-th contributed: the
\* running total when the loop comes to the f-th feed.
MergedBefore(f) ==
  Cardinality({i \in DOMAIN trace.merged :
                 \E g \in 1..(f - 1) : FromFeed(trace.merged[i], g)})

\* The URLs the last call added to the horizon.
Added == scraped_urls \ trace.before

\* C16: a feed the loop comes to with max_results * len(keywords) items
\* merged already is not fetched, none of its entries is normalized, and every
\* URL the call adds to the horizon is that of an entry accepted from another
\* feed.
C16_EarlyExit ==
  \A f \in DOMAIN call.rss_feeds :
    MergedBefore(f) >= call.max_results * Len(call.keywords)
      => /\ f \notin Range(trace.fetched)
         /\ \A p \in Examined : p[1] # f
         /\ Added \subseteq {strip(EntryAt(p).link) : p \in {q \in Taken : q[1] # f}}

\* A call that reached a positive target before a feed holding an acceptable
\* entry whose URL is not in the horizon afterwards, and never fetched it.
C16_Witness ==
  \E f \in DOMAIN call.rss_feeds :
    /\ call.max_results * Len(call.keywords) > 0
    /\ MergedBefore(f) >= call.max_results * Len(call.keywords)
    /\ f \notin Range(trace.fetched)
    /\ \E i \in DOMAIN call.docs[f].entries :
         /\ Acceptable(<<f, i>>)
         /\ strip(EntryAt(<<f, i>>).link) \notin scraped_urls

\* The positions among the first 3 * max_results entries of each feed.
InPrefix == {p \in Offered : p[2] <= 3 * call.max_results}

\* C17: the entries normalized in one feed are among its first
\* 3 * max_results, are taken from the front with none left out and in source
\* order, and every URL the call returns or adds to the horizon is that of an
\* entry of such a prefix.
C17_PrefixOnly ==
  /\ Examined \subseteq InPrefix
  /\ \A p \in Examined : \A j \in 1..(p[2] - 1) : <<p[1], j>> \in Examined
  /\ \A a, b \in DOMAIN trace.seen :
       (a < b /\ trace.seen[a][1] = trace.seen[b][1])
         => trace.seen[a][2] < trace.seen[b][2]
  /\ Taken \subseteq Examined
  /\ Added \cup Urls(result) \subseteq {strip(EntryAt(p).link) : p \in InPrefix}

\* A call that normalized all of the first 3 * max_results entries of a feed
\* holding, further on, an acceptable entry whose URL is not in the horizon
\* afterwards.
C17_Witness ==
  \E p \in Offered \ InPrefix :
    /\ <<p[1], 3 * call.max_results>> \in Examined
    /\ Acceptable(p)
    /\ strip(EntryAt(p).link) \notin scraped_urls

\* The number of entries of the f-th feed accepted before its i-th.
TakenBefore(f, i) == Cardinality({q \in Taken : q[1] = f /\ q[2] < i})

\* C18: no feed has more than max_results entries accepted or items returned,
\* no entry of a feed is normalized once max_results of the entries before it
\* were accepted, and the URLs the call returns or adds to the horizon are
\* those of accepted entries.
C18_PerFeedCap ==
  /\ \A f \in DOMAIN call.rss_feeds :
       /\ Cardinality({p \in Taken : p[1] = f}) <= call.max_results
       /\ Cardinality({i \in DOMAIN result : FromFeed(result[i], f)}) <= call.max_results
  /\ \A p \in Examined : TakenBefore(p[1], p[2]) < call.max_results
  /\ Taken \subseteq Examined
  /\ Added = {strip(EntryAt(p).link) : p \in Taken}
  /\ Urls(result) \subseteq Added

\* A call that accepted max_results entries of a feed and left alone a later
\* entry of its prefix that is acceptable and whose URL is not in the horizon
\* afterwards.
C18_Witness ==
  \E p \in InPrefix \ Examined :
    /\ TakenBefore(p[1], p[2]) = call.max_results
    /\ Acceptable(p)
    /\ strip(EntryAt(p).link) \notin scraped_urls

\* The merged items the last call did not return.
Dropped == Range(trace.merged) \ Range(result)

\* C19: the result holds min(len(merged), max_results * len(keywords)) of the
\* merged items, newest first, and none of the items left out is newer than
\* one returned.
C19_SortThenCut ==
  /\ Range(result) \subseteq Range(trace.merged)
  /\ Len(result) = IF Len(trace.merged) <= call.max_results * Len(call.keywords)
                   THEN Len(trace.merged)
                   ELSE call.max_results * Len(call.keywords)
  /\ \A i \in DOMAIN result : \A j \in DOMAIN result :
       i < j => result[i].published_date >= result[j].published_date
  /\ \A k \in Range(result) : \A d \in Dropped :
       k.published_date >= d.published_date

\* A call whose merged list exceeded the target and was not in date order: the
\* result is not its head, and an item of one feed was dropped while an older
\* feed's and its own feed's newer items were returned.
C19_Witness ==
  /\ Len(trace.merged) > call.max_results * Len(call.keywords)
  /\ result # <<>>
  /\ result # SubSeq(trace.merged, 1, Len(result))
  /\ \E d \in Dropped : \E f \in DOMAIN call.rss_feeds :
       /\ FromFeed(d, f)
       /\ \E k \in Range(result) : FromFeed(k, f) /\ k.published_date > d.published_date
       /\ \E k \in Range(result) : ~FromFeed(k, f) /\ k.published_date > d.published_date

\* C20: no exception leaves the call, and an entry whose normalization meets
\* an internal fault is not accepted, does not make its feed fail, and is
\* followed by the normalization of the entry after it when there is one in
\* the first 3 * max_results.
C20_EntryFaultContained ==
  /\ ~raised
  /\ \A p \in Examined :
       NormalizationRaises(EntryAt(p))
         => /\ p \notin Taken
            /\ Sound(p[1]) => p[1] \notin Range(trace.failed)
            /\ (Sound(p[1]) /\ <<p[1], p[2] + 1>> \in InPrefix)
                 => <<p[1], p[2] + 1>> \in Examined

\* A call that normalized an entry whose summary is not text and returned an
\* item built from a later entry of the same feed.
C20_Witness ==
  \E p \in Examined :
    /\ NormalizationRaises(EntryAt(p))
    /\ \E q \in Taken :
         /\ q[1] = p[1]
         /\ q[2] > p[2]
         /\ strip(EntryAt(q).link) \in Urls(result)

\* The pairs of an entry the last call accepted from one feed and an
\* acceptable entry of the same URL it normalized in a later feed.
SameUrlPairs ==
  {pq \in Taken \X Examined :
     /\ pq[1][1] < pq[2][1]
     /\ Acceptable(pq[2])
     /\ strip(EntryAt(pq[1]).link) = strip(EntryAt(pq[2]).link)}

\* The merged items of the last call with the URL of the entry at p.
MergedWithUrlOf(p) ==
  {i \in DOMAIN trace.merged : trace.merged[i].url = strip(EntryAt(p).link)}

KeywordHits ==
  {k \in DOMAIN pe.keywords :
     contains(lower(pe.keywords[k]),
              lower(strip(pe.entry.title) \o <<" ">> \o CleanBody(pe.entry)))}

\* C5: an accepted entry carries, as the caller spelled it, the earliest
\* keyword in the caller's order whose lowercased form is in the lowercased
\* title and body; an entry no keyword matches is rejected.
C5_KeywordPrecedence ==
  pe.phase = "normalized"
  => /\ pe.item # None
          => \E k \in KeywordHits :
                /\ pe.item.keyword = pe.keywords[k]
                /\ \A j \in KeywordHits : k <= j
     /\ KeywordHits = {} => pe.item = None

\* Keywords [alpha, beta], a text holding both, beta first: keyword alpha.
C5_Witness ==
  /\ pe.phase = "normalized"
  /\ pe.keywords = <<KwAlpha, KwBeta>>
  /\ KeywordHits = {1, 2}
  /\ contains(KwBeta \o <<"<">>, pe.entry.summary)
  /\ pe.item # None
  /\ pe.item.keyword = KwAlpha

\* C7: the summary of an accepted entry is its cleaned body when that has 1
\* to 200 characters, the first 200 characters and "..." when it has more,
\* and "Click to read more..." when it is empty.
C7_SummaryTruncation ==
  (pe.phase = "normalized" /\ pe.item # None)
  => /\ CleanBody(pe.entry) = <<>> => pe.item.summary = Placeholder
     /\ Len(CleanBody(pe.entry)) \in 1..200 => pe.item.summary = CleanBody(pe.entry)
     /\ Len(CleanBody(pe.entry)) > 200
          => pe.item.summary = SubSeq(CleanBody(pe.entry), 1, 200) \o <<".", ".", ".">>

\* An accepted entry with the long plain-text body: 200 characters and "...".
C7_Witness ==
  /\ pe.phase = "normalized"
  /\ pe.item # None
  /\ pe.entry.summary = X(LongBody)
  /\ Len(pe.item.summary) = 203
  /\ SubSeq(pe.item.summary, 201, 203) = <<".", ".", ".">>

\* The i-th source has a candidate that, repaired, passes validation.
CandidateValid(i) ==
  /\ SourceCandidates(pe.entry)[i] # <<>>
  /\ ~RepairRaises(SourceCandidates(pe.entry)[i], pe.entry)
  /\ is_valid_image_url(RepairUrl(SourceCandidates(pe.entry)[i], pe.entry), pe.entry.head)

\* C9 as stated, for an entry none of whose elements lacks its URL: the
\* returned URL is the candidate of the highest-priority source whose
\* candidate passes validation (no image when there is none).
C9_AsStated ==
  (pe.phase = "extracted" /\ ~ExtractionRaises(pe.entry))
  => IF \A i \in 1..5 : ~CandidateValid(i) THEN pe.image = NoImage
     ELSE pe.image =
            RepairUrl(SourceCandidates(pe.entry)[SetMin({i \in 1..5 : CandidateValid(i)})],
                      pe.entry)

\* C9: the sources are consulted in the order enclosure, media thumbnail,
\* media content, <img> of the body, <img> of the content field, and the
\* first one that has a candidate wins: the result is that candidate,
\* repaired, when it passes validation and no image when it does not or when
\* an element consulted lacks its URL; a valid enclosure image wins over an
\* embedded <img>.
C9_FirstCandidateWins ==
  pe.phase = "extracted"
  => /\ IF ExtractionRaises(pe.entry)
           \/ \A i \in 1..5 : SourceCandidates(pe.entry)[i] = <<>>
        THEN pe.image = NoImage
        ELSE \E i \in 1..5 :
               /\ SourceCandidates(pe.entry)[i] # <<>>
               /\ \A j \in 1..(i - 1) : SourceCandidates(pe.entry)[j] = <<>>
               /\ pe.image = IF CandidateValid(i)
                             THEN RepairUrl(SourceCandidates(pe.entry)[i], pe.entry)
                             ELSE NoImage
     /\ (CandidateValid(1) /\ BodyImgCandidate(pe.entry) # <<>>)
          => pe.image = RepairUrl(EnclosureCandidate(pe.entry), pe.entry)

\* An entry with a valid enclosure image, a media thumbnail and an embedded
\* <img>: the enclosure URL is returned.
C9_Witness ==
  /\ pe.phase = "extracted"
  /\ EnclosureCandidate(pe.entry) = ImgJpg
  /\ ThumbnailCandidate(pe.entry) = ImgThumb
  /\ BodyImgCandidate(pe.entry) # <<>>
  /\ pe.image = ImgJpg

\* C21: the published_date of an item is the entry's parsed published time
\* when it has one, otherwise its parsed updated time when it has one, and
\* otherwise the wall clock of the normalization.
C21_DatePrecedence ==
  (pe.phase = "normalized" /\ pe.item # None)
    => pe.item.published_date =
         IF pe.entry.published_parsed # <<>> THEN pe.entry.published_parsed[1]
         ELSE IF pe.entry.updated_parsed # <<>> THEN pe.entry.updated_parsed[1]
         ELSE pe.now

\* An accepted entry with a parsed published time and a later parsed updated
\* time, dated by the published one.
C21_Witness ==
  /\ pe.phase = "normalized"
  /\ pe.item # None
  /\ pe.entry.published_parsed # <<>>
  /\ pe.entry.updated_parsed # <<>>
  /\ pe.entry.updated_parsed[1] > pe.entry.published_parsed[1]
  /\ pe.item.published_date = pe.entry.published_parsed[1]

\* The host of the feed URL with a "www." at its head removed.
HostLessLeadingWww(url) ==
  IF startswith(UrlNetloc(url), Www)
  THEN SubSeq(UrlNetloc(url), Len(Www) + 1, Len(UrlNetloc(url)))
  ELSE UrlNetloc(url)

\* C22 as stated: the source of an item is "Unknown" when the feed URL does
\* not parse, and otherwise its host with only a "www." at the head removed.
C22_AsStated ==
  (pe.phase = "normalized" /\ pe.item # None)
    => pe.item.source =
         IF UrlParseRaises(pe.feed_url) THEN Unknown
         ELSE HostLessLeadingWww(pe.feed_url)

\* C23: a candidate beginning with "//" is handed to validation behind
\* "https:", one beginning with a single "/" behind the scheme, "://" and the
\* network location of the entry's link, and every other candidate as it is.
C23_RelativeRepair ==
  (pe.phase = "extracted" /\ pe.candidate # <<>> /\ ~ExtractionFaults(pe.entry))
    => pe.checked =
         IF startswith(pe.candidate, <<"/", "/">>) THEN HttpsColon \o pe.candidate
         ELSE IF startswith(pe.candidate, <<"/">>)
              THEN UrlScheme(pe.entry.link) \o SchemeSep \o UrlNetloc(pe.entry.link)
                     \o pe.candidate
              ELSE pe.candidate

\* A root-relative candidate resolved against a link with a port and a query,
\* and returned as the image.
C23_Witness ==
  /\ pe.phase = "extracted"
  /\ startswith(pe.candidate, <<"/">>)
  /\ ~startswith(pe.candidate, <<"/", "/">>)
  /\ pe.entry.link = LinkPort
  /\ pe.checked # pe.candidate
  /\ pe.image = pe.checked

\* The path of a URL: what follows the network location, up to "?" or "#".
UrlPath(url) ==
  LET rest == SubSeq(url, SchemeEnd(url) + 1, Len(url))
      start == SchemeEnd(url) + 1
                 + (IF startswith(rest, <<"/", "/">>) THEN 2 + Len(UrlNetloc(url)) ELSE 0)
      ends == {i \in start..Len(url) : url[i] \in {"?", "#"}}
  IN SubSeq(url, start, IF ends = {} THEN Len(url) ELSE SetMin(ends) - 1)

\* The URL is absolute and its scheme is http or https.
AbsoluteHttp(url) ==
  /\ UrlScheme(url) \in {<<"h","t","t","p">>, <<"h","t","t","p","s">>}
  /\ UrlNetloc(url) # <<>>

\* The path of the URL ends in one of the image extensions, whatever the case.
PathHasImageExtension(url) ==
  \E e \in DOMAIN valid_extensions : endswith(lower(UrlPath(url)), valid_extensions[e])

\* C24 as stated: a URL that is not an absolute http or https URL is
\* rejected, and an http or https URL whose path ends in .jpg, .jpeg, .png,
\* .webp or .gif is accepted with no HEAD request issued.
C24_AsStated ==
  (pe.phase = "extracted" /\ pe.checked # <<>>)
    => /\ ~AbsoluteHttp(pe.checked) => pe.image = NoImage
       /\ (AbsoluteHttp(pe.checked) /\ PathHasImageExtension(pe.checked))
            => pe.image = pe.checked /\ ~pe.probed

\* The HEAD request is answered with a 2xx status and a content type
\* beginning with "image/".
ProbeSucceeds(head) ==
  /\ ~head.fails
  /\ head.status \in 200..299
  /\ startswith(lower(head.content_type), ImageSlash)

\* C25 as stated: an http or https URL that does not end in an image
\* extension is accepted exactly when the HEAD request is answered with a 2xx
\* status and a content type beginning with "image/".
C25_AsStated ==
  ( /\ pe.phase = "extracted"
    /\ startswith(pe.checked, HttpPrefix) \/ startswith(pe.checked, HttpsPrefix)
    /\ ~HasImageExtension(pe.checked) )
  => (pe.image = pe.checked <=> ProbeSucceeds(pe.entry.head))

\* The entry without its media elements.
Bare(entry) ==
  [entry EXCEPT !.enclosures = <<>>, !.media_thumbnail = <<>>,
                !.media_content = <<>>, !.content = <<>>]

\* C26: no exception leaves _extract_image_url, a fault inside it gives no
\* image, and an entry is normalized to the item it would be without its
\* media elements, but for the image_url, which is what the extraction gave.
C26_ExtractionNeverRaises ==
  /\ ~pe.escaped
  /\ (pe.phase = "extracted" /\ ExtractionFaults(pe.entry)) => pe.image = NoImage
  /\ ( /\ pe.phase = "normalized"
       /\ process_entry(Bare(pe.entry), pe.keywords, pe.feed_url, pe.now) # None )
     => /\ pe.item # None
        /\ pe.item =
             [process_entry(Bare(pe.entry), pe.keywords, pe.feed_url, pe.now)
                EXCEPT !.image_url = extract_image_url(pe.entry)]
        /\ ExtractionFaults(pe.entry) => pe.item.image_url = NoImage

\* An entry whose media hint lacks its URL, normalized to an item without an
\* image.
C26_Witness ==
  /\ pe.phase = "normalized"
  /\ ExtractionFaults(pe.entry)
  /\ pe.item # None
  /\ pe.item.image_url = NoImage

(* ------------------------------------------------------------------ *)
(* Properties of the waiting steps of scrape_news (SpecFetch)          *)
(* ------------------------------------------------------------------ *)

\* C12 as stated: whenever a call waits on a source, for a feed fetch or for
\* an image probe, a timeout is set for the wait and the call has not waited
\* longer than it.
C12_AsStated ==
  Waiting(run) => run.timeout.armed /\ run.waited <= run.timeout.seconds

(* ------------------------------------------------------------------ *)
(* Properties of the handlers (SpecBot)                                *)
(* ------------------------------------------------------------------ *)

\* C27: a request served by a handler ran scrape_news on an empty horizon and
\* got what the call returns on an empty horizon, whatever the scheduler's
\* scraper holds, and left that scraper as it was; a scheduled run ran it on
\* the horizon of the scheduler's scraper, returned nothing of it and left
\* every URL of it there.
C27_FreshScraperPerRequest ==
  /\ bot.who \in Handlers
       => /\ bot.before = {}
          /\ bot.news_items = ScrapeMemo[<<{}, bot.call>>].result
  /\ bot.who = "fetch_and_send_news"
       => /\ bot.news_items = ScrapeMemo[<<bot.before, bot.call>>].result
          /\ Urls(bot.news_items) \cap bot.before = {}
          /\ bot.before \subseteq bot.sched

\* A request served by a handler that returned a URL the scheduler's scraper
\* holds.
C27_Witness ==
  /\ bot.who \in Handlers
  /\ Urls(bot.news_items) \cap bot.sched # {}

(* ------------------------------------------------------------------ *)
(* Properties of summarize_combined_articles (SpecSummarize)           *)
(* ------------------------------------------------------------------ *)

\* The upstream text-generation call was made and raised.
UpstreamRaised ==
  /\ gs.phase = "done"
  /\ ~PromptRaises(gs.news_items)
  /\ \/ GenerateRaises(gs.upstream, create_combined_prompt(gs.news_items))
     \/ TextRaises(gs.upstream)

\* C13: no exception leaves summarize_combined_articles, and when the
\* upstream text-generation call raises the call returns the fallback string.
C13_FailsClosed ==
  /\ ~gs.raised
  /\ UpstreamRaised => gs.returned = Fallback

\* A call with two articles whose generate_content raised and that returned
\* the fallback string.
C13_Witness ==
  /\ UpstreamRaised
  /\ Len(gs.news_items) = 2
  /\ gs.upstream.generate = "raises"
  /\ gs.returned = Fallback
  /\ ~gs.raised

(* ------------------------------------------------------------------ *)
(* Properties of summarize_individual_articles (SpecSummarize)         *)
(* ------------------------------------------------------------------ *)

\* The articles of the last call whose turn of the loop failed.
FailedArticles ==
  {i \in DOMAIN gs.news_items : ArticleFails(gs.news_items[i], gs.upstreams[i])}

\* Record b is record a with one more key, ai_summary, holding text.
IsCopyWith(b, a, text) ==
  /\ DOMAIN b = DOMAIN a \cup {"ai_summary"}
  /\ \A k \in DOMAIN a \ {"ai_summary"} : b[k] = a[k]
  /\ b.ai_summary = text

\* C29: summarize_individual_articles raises nothing and returns one record
\* per input article, in input order: the record of article i is article i
\* with an ai_summary, the fixed text when its generation failed and the
\* generated text otherwise, whatever happened to the articles before it; the
\* caller's records are as they were.
C29_OnePerArticle ==
  gs.phase = "done_individual"
    => /\ ~gs.raised
       /\ Len(gs.summarized) = Len(gs.news_items)
       /\ \A i \in DOMAIN gs.news_items :
            IsCopyWith(gs.summarized[i], gs.news_items[i],
                       IF i \in FailedArticles THEN Unavailable
                       ELSE gs.upstreams[i].reply)
       /\ gs.items_after = gs.news_items

\* A call with two articles: generate_content raised for the first, which
\* holds the fixed text, and the second holds its generated summary.
C29_Witness ==
  /\ gs.phase = "done_individual"
  /\ Len(gs.news_items) = 2
  /\ gs.upstreams[1].generate = "raises"
  /\ gs.summarized[1].ai_summary = Unavailable
  /\ 2 \notin FailedArticles
  /\ gs.summarized[2].ai_summary = "KEY FACTS"

(* ------------------------------------------------------------------ *)
(* Properties of normalize_rss_url (SpecSource)                        *)
(* ------------------------------------------------------------------ *)

\* The text a source was added with has been sent for its removal.
SameTextSent == nu.phase \in {"removed", "not_removed", "ignored"} /\ nu.sent = nu.text

\* C30: normalizing a stored URL again gives the same URL, the stored URL
\* starts with http:// or https://, and when the text a source was added with
\* is sent for its removal the URL looked for is the stored one, which is
\* removed.
C30_AsStated ==
  nu.phase # "idle"
    => /\ normalize_rss_url(nu.url) = nu.url
       /\ startswith(nu.url, HttpPrefix) \/ startswith(nu.url, HttpsPrefix)
       /\ SameTextSent
            => /\ nu.phase = "removed"
               /\ nu.matched = nu.url
               /\ nu.url \notin nu.stored

====
